---- MODULE Spec2Model ----
(***************************************************************************)
(* Model of the gogh workflow runner (Neoxs/gogh): the dependency resolver *)
(* (workflow.BuildExecutionPlan), the execution engine                     *)
(* (executor.WorkflowExecutor.Execute / executeJob), the display state it  *)
(* mutates (display.WorkflowState), the sandbox driver (container.JobRunner)*)
(* and the workflow logger's Close.                                        *)
(***************************************************************************)
EXTENDS Naturals, Integers, Sequences, FiniteSets, TLC

(***************************************************************************)
(* Bounds of the model.                                                    *)
(***************************************************************************)
\* longest needs list of a job
MaxNeeds == 2
\* most needs entries of a workflow, all its jobs together
MaxNeedsTotal == 4
\* longest step list of a job
MaxSteps == 3
\* most pieces (texts and expressions) of a string given to replaceExpressions
MaxPieces == 3
\* most lines the command of a step writes to one of its output streams
MaxLines == 2
\* most docker commands a JobRunner issues
MaxDockerCmds == 3
\* most Log calls made on the loggers
MaxLogCalls == 2

\* the job ids; a workflow declares some of them and may name any in a needs list
JobIds == {"a", "b", "c"}

(***************************************************************************)
(* display.ExecutionStatus                                                 *)
(***************************************************************************)
StatusPending == "pending"
StatusRunning == "running"
StatusSuccess == "success"
StatusFailure == "failure"
StatusSkipped == "skipped"

(***************************************************************************)
(* Helpers on sequences and sets.                                          *)
(***************************************************************************)
Range(s) == {s[i] : i \in DOMAIN s}

BSeq(S, n) == UNION {[1..k -> S] : k \in 0..n}

\* the orders in which a Go map with key set S may be iterated
Perms(S) == {s \in [1..Cardinality(S) -> S] : Range(s) = S}

\* error values: the nil error and the errors the code builds with fmt.Errorf
NoError == [kind |-> "nil"]

(***************************************************************************)
(* workflow.StepDefinition / JobDefinition / WorkflowDefinition            *)
(* A step has Name and Run (the empty string when absent), Uses (a string  *)
(* of symbols, empty when absent) and With (the inputs of the action).     *)
(***************************************************************************)
\* no inputs (a step without "with")
NoInputs == [k \in {} |-> <<>>]

Step(name, run, uses, with) == [Name |-> name, Run |-> run, Uses |-> uses, With |-> with]

\* an unnamed shell step
PlainStep == Step("", "make", <<>>, NoInputs)

\* the steps of the workflows: shell steps without and with a name, a step
\* with neither run nor uses, a step with both, and action steps: a
\* registered action, one whose inputs it rejects, one whose inputs it
\* accepts, and an action that is not registered
StepDefinition ==
  {PlainStep,
   Step("Step 2", "make", <<>>, NoInputs),
   Step("", "", <<>>, NoInputs),
   Step("", "make", <<"actions/checkout", "@", "v4">>, NoInputs),
   Step("", "", <<"actions/checkout", "@", "v4">>, NoInputs),
   Step("", "", <<"actions/setup-node", "@", "v4">>, [k \in {"node-version"} |-> <<>>]),
   Step("", "", <<"actions/setup-node", "@", "v4">>, [k \in {"node-version"} |-> <<"18">>]),
   Step("", "", <<"actions/cache", "@", "v4">>, NoInputs),
   Step("", "", <<"actions/checkout", "@", "v4">>,
        [k \in {"ref"} |->
           <<"$", "{", "{", " ", "github", ".", "sha", " ", "}", "}",
             "$", "{", "{", " ", "runner", ".", "name", " ", "}", "}">>])}

JobDefinition(needs, steps) == [Needs |-> needs, Steps |-> steps]

\* a workflow whose jobs have the given needs lists (naming declared and
\* undeclared jobs) and one unnamed shell step each
GraphWorkflow(jobs, needs) ==
  [Jobs |-> [j \in jobs |-> JobDefinition(needs[j], <<PlainStep>>)]]

\* a workflow of one job with the given step list
StepWorkflow(steps) ==
  [Jobs |-> [j \in {"a"} |-> JobDefinition(<<>>, steps)]]

\* the number of needs entries of the jobs
RECURSIVE NeedsTotal(_)
NeedsTotal(needs) ==
  IF DOMAIN needs = {} THEN 0
  ELSE LET j == CHOOSE x \in DOMAIN needs : TRUE
       IN Len(needs[j]) + NeedsTotal([k \in DOMAIN needs \ {j} |-> needs[k]])

\* the workflows a run is given; Parse rejects a workflow without jobs, so
\* every workflow has one at least
IsWorkflow(w) ==
  \/ \E jobs \in (SUBSET JobIds) \ {{}} :
       \E needs \in [jobs -> BSeq(JobIds, MaxNeeds)] :
         /\ NeedsTotal(needs) <= MaxNeedsTotal
         /\ w = GraphWorkflow(jobs, needs)
  \/ \E steps \in BSeq(StepDefinition, MaxSteps) : w = StepWorkflow(steps)

(***************************************************************************)
(* workflow.BuildExecutionPlan (Kahn's algorithm).  Go iterates a map in   *)
(* an unspecified order: order1 is the order of the loop over w.Jobs,      *)
(* order2 the order of the loop over inDegree.                             *)
(***************************************************************************)
\* the (job, dependency) pairs in the order the first loop visits them
RECURSIVE NeedsPairs(_, _)
NeedsPairs(w, order) ==
  IF order = <<>> THEN <<>>
  ELSE LET jobID == Head(order)
           jobNeeds == w.Jobs[jobID].Needs
       IN [k \in 1..Len(jobNeeds) |-> [job |-> jobID, dependency |-> jobNeeds[k]]]
          \o NeedsPairs(w, Tail(order))

\* inDegree[jobID] = len(jobNeeds)
InDegreeOf(w, jobID) == Len(w.Jobs[jobID].Needs)

\* BuildGraph without the test that the dependency exists
BuildGraphUnvalidated(w, order1) ==
  LET pairs == NeedsPairs(w, order1)
  IN [err |-> NoError,
      graph |-> [d \in DOMAIN w.Jobs |->
                   LET into == SelectSeq(pairs, LAMBDA p : p.dependency = d)
                   IN [k \in 1..Len(into) |-> into[k].job]],
      inDegree |-> [j \in DOMAIN w.Jobs |-> InDegreeOf(w, j)]]

\* the first loop: validates every dependency and fills graph and inDegree
BuildGraph(w, order1) ==
  LET pairs == NeedsPairs(w, order1)
      bad == {i \in DOMAIN pairs : pairs[i].dependency \notin DOMAIN w.Jobs}
      first == CHOOSE i \in bad : \A k \in bad : i <= k
  IN IF bad # {}
     THEN [err |-> [kind |-> "nonexistent", job |-> pairs[first].job,
                    dependency |-> pairs[first].dependency],
           graph |-> <<>>, inDegree |-> <<>>]
     ELSE [err |-> NoError,
           graph |-> [d \in DOMAIN w.Jobs |->
                        LET into == SelectSeq(pairs, LAMBDA p : p.dependency = d)
                        IN [k \in 1..Len(into) |-> into[k].job]],
           inDegree |-> [j \in DOMAIN w.Jobs |-> InDegreeOf(w, j)]]

\* UpdateDependents enqueueing a dependent one dependency too early
RECURSIVE UpdateDependentsOneEarly(_, _, _)
UpdateDependentsOneEarly(dependents, inDegree, queue) ==
  IF dependents = <<>> THEN [inDegree |-> inDegree, queue |-> queue]
  ELSE LET dependent == Head(dependents)
           degree == inDegree[dependent] - 1
       IN UpdateDependentsOneEarly(Tail(dependents),
                                   [inDegree EXCEPT ![dependent] = degree],
                                   IF degree \in {0, 1} THEN Append(queue, dependent)
                                                        ELSE queue)

\* the loop over graph[current]: decrement, and enqueue on reaching zero
RECURSIVE UpdateDependents(_, _, _)
UpdateDependents(dependents, inDegree, queue) ==
  IF dependents = <<>> THEN [inDegree |-> inDegree, queue |-> queue]
  ELSE LET dependent == Head(dependents)
           degree == inDegree[dependent] - 1
       IN UpdateDependents(Tail(dependents),
                           [inDegree EXCEPT ![dependent] = degree],
                           IF degree = 0 THEN Append(queue, dependent) ELSE queue)

\* the loop "for len(queue) > 0"
RECURSIVE ProcessQueue(_, _, _, _)
ProcessQueue(graph, inDegree, queue, result) ==
  IF queue = <<>> THEN result
  ELSE LET current == Head(queue)
           upd == UpdateDependents(graph[current], inDegree, Tail(queue))
       IN ProcessQueue(graph, upd.inDegree, upd.queue, Append(result, current))

\* the jobs with no dependencies, in the order the second loop finds them
InitialQueue(inDegree, order2) == SelectSeq(order2, LAMBDA j : inDegree[j] = 0)

\* BuildExecutionPlan without the test "len(result) != len(w.Jobs)"
BuildExecutionPlanNoCycleTest(w, order1, order2) ==
  LET g == BuildGraph(w, order1)
  IN IF g.err # NoError
     THEN [order |-> <<>>, err |-> g.err]
     ELSE [order |-> ProcessQueue(g.graph, g.inDegree,
                                  InitialQueue(g.inDegree, order2), <<>>),
           err |-> NoError]

\* BuildExecutionPlan returning a plan that ends with its first job again
BuildExecutionPlanRepeating(w, order1, order2) ==
  LET plan == BuildExecutionPlanNoCycleTest(w, order1, order2)
  IN IF Cardinality(DOMAIN w.Jobs) = 0
     THEN [order |-> <<>>, err |-> [kind |-> "no_jobs"]]
     ELSE IF plan.err # NoError
     THEN [order |-> <<>>, err |-> plan.err]
     ELSE IF Len(plan.order) # Cardinality(DOMAIN w.Jobs)
     THEN [order |-> <<>>, err |-> [kind |-> "circular"]]
     ELSE [order |-> Append(plan.order, plan.order[1]), err |-> NoError]

BuildExecutionPlan(w, order1, order2) ==
  IF Cardinality(DOMAIN w.Jobs) = 0
  THEN [order |-> <<>>, err |-> [kind |-> "no_jobs"]]
  ELSE LET g == BuildGraph(w, order1)
       IN IF g.err # NoError
          THEN [order |-> <<>>, err |-> g.err]
          ELSE LET result == ProcessQueue(g.graph, g.inDegree,
                                          InitialQueue(g.inDegree, order2), <<>>)
               IN IF Len(result) # Cardinality(DOMAIN w.Jobs)
                  THEN [order |-> <<>>, err |-> [kind |-> "circular"]]
                  ELSE [order |-> result, err |-> NoError]

(***************************************************************************)
(* display: NewWorkflowState, NewJobState, NewStepState, UpdateJobStatus,  *)
(* UpdateStepStatus.  A timestamp is modelled by whether it has been set.  *)
(***************************************************************************)
NewWorkflowState == [Status |-> StatusRunning, Jobs |-> <<>>]

\* NewJobState creating the job already running
NewJobStateRunning(jobID) ==
  [ID |-> jobID, Status |-> StatusRunning, StartTimeSet |-> TRUE,
   EndTimeSet |-> FALSE, Steps |-> <<>>]

NewJobState(jobID) ==
  [ID |-> jobID, Status |-> StatusPending, StartTimeSet |-> FALSE,
   EndTimeSet |-> FALSE, Steps |-> <<>>]

NewStepState(stepName) ==
  [Name |-> stepName, Status |-> StatusPending, StartTimeSet |-> FALSE,
   EndTimeSet |-> FALSE]

\* the assignments shared by UpdateJobStatus and UpdateStepStatus
WithStatus(s, status) ==
  [s EXCEPT !.Status = status,
            !.StartTimeSet = @ \/ status = StatusRunning,
            !.EndTimeSet = @ \/ status \in {StatusSuccess, StatusFailure}]

UpdateJobStatus(ws, jobID, status) ==
  IF jobID \in DOMAIN ws.Jobs
  THEN [ws EXCEPT !.Jobs[jobID] = WithStatus(@, status)]
  ELSE ws

\* the step the loop "for _, step := range job.Steps" stops at: the first
\* one whose Name is stepName
MatchingStep(steps, stepName) ==
  LET hits == {i \in DOMAIN steps : steps[i].Name = stepName}
  IN IF hits = {} THEN 0 ELSE CHOOSE i \in hits : \A k \in hits : i <= k

UpdateStepStatus(ws, jobID, stepName, status) ==
  IF jobID \in DOMAIN ws.Jobs /\ MatchingStep(ws.Jobs[jobID].Steps, stepName) # 0
  THEN [ws EXCEPT !.Jobs[jobID].Steps[MatchingStep(ws.Jobs[jobID].Steps, stepName)]
                    = WithStatus(@, status)]
  ELSE ws

\* stepName := step.Name; if stepName == "" { fmt.Sprintf("Step %d", i+1) },
\* with n the 1-based position of the step
StepDisplayName(step, n) ==
  IF step.Name = "" THEN "Step " \o ToString(n) ELSE step.Name

(***************************************************************************)
(* container.JobRunner: NewJobRunner, Start, RunStep, Stop.  The docker    *)
(* command's outcome is an input of each operation.                        *)
(***************************************************************************)
ExitCodes == {0, 1, 2}

\* what "docker exec" may do: fail to start, or run and exit with a code
DockerExecs ==
  {[started |-> FALSE, exitCode |-> 0]} \cup
  {[started |-> TRUE, exitCode |-> c] : c \in ExitCodes}

\* mapRunnerToImage without the pass-through of the default case
mapRunnerToImageDefaultImage(runsOnValue) ==
  CASE runsOnValue = "ubuntu-22.04" -> "ubuntu:22.04"
    [] runsOnValue = "ubuntu-20.04" -> "ubuntu:20.04"
    [] OTHER -> "ubuntu:latest"

mapRunnerToImage(runsOnValue) ==
  CASE runsOnValue = "ubuntu-latest" -> "ubuntu:latest"
    [] runsOnValue = "ubuntu-22.04" -> "ubuntu:22.04"
    [] runsOnValue = "ubuntu-20.04" -> "ubuntu:20.04"
    [] OTHER -> runsOnValue

NewJobRunner == [isRunning |-> FALSE, containerID |-> ""]

\* Start without the test "jr.isRunning"
StartUnguarded(jr, dockerOk, newID) ==
  IF ~dockerOk
  THEN [jr |-> jr, err |-> [kind |-> "start_failed"], issued |-> TRUE]
  ELSE [jr |-> [isRunning |-> TRUE, containerID |-> newID], err |-> NoError,
        issued |-> TRUE]

\* dockerOk: "docker run" succeeded and printed the id newID
Start(jr, dockerOk, newID) ==
  IF jr.isRunning
  THEN [jr |-> jr, err |-> [kind |-> "already_running"], issued |-> FALSE]
  ELSE IF ~dockerOk
  THEN [jr |-> jr, err |-> [kind |-> "start_failed"], issued |-> TRUE]
  ELSE [jr |-> [isRunning |-> TRUE, containerID |-> newID], err |-> NoError,
        issued |-> TRUE]

RunStep(jr, exec) ==
  IF ~jr.isRunning
  THEN [hasResult |-> FALSE, Success |-> FALSE, ExitCode |-> 0,
        err |-> [kind |-> "not_running"], issued |-> FALSE]
  ELSE IF ~exec.started
  THEN [hasResult |-> TRUE, Success |-> FALSE, ExitCode |-> 0,
        err |-> [kind |-> "exec_failed"], issued |-> TRUE]
  ELSE [hasResult |-> TRUE, Success |-> exec.exitCode = 0,
        ExitCode |-> exec.exitCode, err |-> NoError, issued |-> TRUE]

\* Stop without the test "!jr.isRunning || jr.containerID == """
StopUnguarded(jr, dockerOk) ==
  IF ~dockerOk
  THEN [jr |-> jr, err |-> [kind |-> "stop_failed"], issued |-> TRUE]
  ELSE [jr |-> [isRunning |-> FALSE, containerID |-> ""], err |-> NoError,
        issued |-> TRUE]

\* dockerOk: "docker stop" succeeded
Stop(jr, dockerOk) ==
  IF ~jr.isRunning \/ jr.containerID = ""
  THEN [jr |-> jr, err |-> NoError, issued |-> FALSE]
  ELSE IF ~dockerOk
  THEN [jr |-> jr, err |-> [kind |-> "stop_failed"], issued |-> TRUE]
  ELSE [jr |-> [isRunning |-> FALSE, containerID |-> ""], err |-> NoError,
        issued |-> TRUE]

(***************************************************************************)
(* logging.WorkflowLogger: GetJobLogger and Close.  JobLogger.Close takes  *)
(* jl.mu and, the job file being open, calls writeJobLog, which takes      *)
(* jl.mu again: sync.Mutex is not reentrant, so Close never returns once   *)
(* a job logger exists.                                                    *)
(***************************************************************************)
\* createOk: os.Create of the job log file succeeded
GetJobLogger(loggers, jobID, createOk) ==
  IF jobID \in loggers THEN [loggers |-> loggers, err |-> NoError]
  ELSE IF ~createOk THEN [loggers |-> loggers, err |-> [kind |-> "job_log_file"]]
  ELSE [loggers |-> loggers \cup {jobID}, err |-> NoError]

\* whether WorkflowLogger.Close returns
CloseReturns(loggers) == loggers = {}

(***************************************************************************)
(* Strings.  A string is a sequence of symbols; a symbol is one character  *)
(* ("$", "{", ".", " ") or a run of characters that the inputs never split *)
(* ("github", "GITHUB_ACTION").  The operators are those of Go's strings   *)
(* package, computed on symbols; positions are 1-based and 0 means absent. *)
(***************************************************************************)
OccursAt(s, sub, i) ==
  /\ i + Len(sub) - 1 <= Len(s)
  /\ \A k \in 1..Len(sub) : s[i + k - 1] = sub[k]

\* strings.Index
Index(s, sub) ==
  LET at == {i \in 1..(Len(s) + 1) : OccursAt(s, sub, i)}
  IN IF at = {} THEN 0 ELSE CHOOSE i \in at : \A j \in at : i <= j

\* strings.ReplaceAll for a non-empty old
RECURSIVE ReplaceAll(_, _, _)
ReplaceAll(s, old, new) ==
  LET i == Index(s, old)
  IN IF i = 0 THEN s
     ELSE SubSeq(s, 1, i - 1) \o new
            \o ReplaceAll(SubSeq(s, i + Len(old), Len(s)), old, new)

\* the text "${{ c.p }}"
Token(c, p) == <<"$", "{", "{", " ", c, ".", p, " ", "}", "}">>

(***************************************************************************)
(* display.EnvironmentManager (terminal.go, lines 384-518)                 *)
(***************************************************************************)
\* createGitHubContext, for a project directory that is not a git checkout
GitHubContext ==
  [Repository |-> <<"local/project">>, SHA |-> <<"0000000">>,
   Ref |-> <<"refs/heads/main">>, Workspace |-> <<"/workspace">>,
   EventName |-> <<"push">>, Actor |-> <<"local-user">>,
   RunID |-> <<"1700000000">>, RunNumber |-> <<"1">>,
   Job |-> <<>>, Action |-> <<>>, ActionPath |-> <<>>]

\* createRunnerContext
RunnerContext ==
  [OS |-> <<"Linux">>, Arch |-> <<"X64">>, Name |-> <<"gogh-runner">>,
   Temp |-> <<"/tmp">>, ToolCache |-> <<"/opt/hostedtoolcache">>]

\* a map[string]string without keys (a nil map is ranged over like one)
EmptyEnv == [k \in {} |-> <<>>]

\* env[key] = value
Put(env, key, value) ==
  [k \in DOMAIN env \cup {key} |-> IF k = key THEN value ELSE env[k]]

\* addGitHubContextVars
addGitHubContextVars(env, ctx) ==
  LET derived ==
        <<<<"GITHUB_REPOSITORY">>, <<"GITHUB_SHA">>, <<"GITHUB_REF">>,
          <<"GITHUB_WORKSPACE">>, <<"GITHUB_EVENT_NAME">>, <<"GITHUB_ACTOR">>,
          <<"GITHUB_RUN_ID">>, <<"GITHUB_RUN_NUMBER">>, <<"GITHUB_JOB">>,
          <<"GITHUB_ACTION">>, <<"GITHUB_ACTION", "_PATH">>,
          <<"CI">>, <<"GITHUB_ACTION", "S">>>>
      values ==
        <<ctx.Repository, ctx.SHA, ctx.Ref, ctx.Workspace, ctx.EventName,
          ctx.Actor, ctx.RunID, ctx.RunNumber, ctx.Job, ctx.Action,
          ctx.ActionPath, <<"true">>, <<"true">>>>
  IN [k \in DOMAIN env \cup Range(derived) |->
        IF k \in Range(derived)
        THEN values[CHOOSE i \in DOMAIN derived : derived[i] = k]
        ELSE env[k]]

\* addRunnerContextVars
addRunnerContextVars(env, ctx) ==
  LET derived == <<<<"RUNNER_OS">>, <<"RUNNER_ARCH">>, <<"RUNNER_NAME">>,
                   <<"RUNNER_TEMP">>, <<"RUNNER_TOOL_CACHE">>>>
      values == <<ctx.OS, ctx.Arch, ctx.Name, ctx.Temp, ctx.ToolCache>>
  IN [k \in DOMAIN env \cup Range(derived) |->
        IF k \in Range(derived)
        THEN values[CHOOSE i \in DOMAIN derived : derived[i] = k]
        ELSE env[k]]

\* expandVariables, lines 488-502: the literal tokens, one ReplaceAll each
RECURSIVE ReplaceTokens(_, _)
ReplaceTokens(result, pairs) ==
  IF pairs = <<>> THEN result
  ELSE ReplaceTokens(ReplaceAll(result, Head(pairs)[1], Head(pairs)[2]),
                     Tail(pairs))

ContextTokens(github, runner) ==
  <<<<Token("github", "repository"), github.Repository>>,
    <<Token("github", "sha"), github.SHA>>,
    <<Token("github", "ref"), github.Ref>>,
    <<Token("github", "workspace"), github.Workspace>>,
    <<Token("github", "event_name"), github.EventName>>,
    <<Token("github", "actor"), github.Actor>>,
    <<Token("github", "run_id"), github.RunID>>,
    <<Token("github", "run_number"), github.RunNumber>>,
    <<Token("runner", "os"), runner.OS>>,
    <<Token("runner", "arch"), runner.Arch>>,
    <<Token("runner", "temp"), runner.Temp>>,
    <<Token("runner", "tool_cache"), runner.ToolCache>>>>

\* expandVariables, lines 505-508: the loop over currentEnv, its keys visited
\* in the given order
RECURSIVE ReplaceEnvReferences(_, _, _)
ReplaceEnvReferences(result, currentEnv, order) ==
  IF order = <<>> THEN result
  ELSE LET envKey == Head(order)
           envValue == currentEnv[envKey]
           plain == ReplaceAll(result, <<"$">> \o envKey, envValue)
           braced == ReplaceAll(plain, <<"$", "{">> \o envKey \o <<"}">>, envValue)
       IN ReplaceEnvReferences(braced, currentEnv, Tail(order))

\* the keys whose visit can change the result: a key none of whose symbols
\* occurs in the value or in a value of the mapping is never referenced,
\* whatever was replaced before it
ReferableKeys(value, currentEnv) ==
  LET symbols == Range(value) \cup UNION {Range(currentEnv[k]) : k \in DOMAIN currentEnv}
  IN {k \in DOMAIN currentEnv : Range(k) \cap symbols # {}}

\* expandVariables: the values it can return, one for each order in which
\* the runtime can visit the keys of currentEnv
expandVariables(value, currentEnv) ==
  LET result == ReplaceTokens(value, ContextTokens(GitHubContext, RunnerContext))
  IN {ReplaceEnvReferences(result, currentEnv, order) :
        order \in Perms(ReferableKeys(result, currentEnv))}

\* one loop "for key, value := range layer { env[key] = expandVariables(..) }":
\* the mappings it can leave in env, the keys in remaining still to visit
RECURSIVE ApplyLayer(_, _, _)
ApplyLayer(layer, env, remaining) ==
  IF remaining = {} THEN {env}
  ELSE UNION {UNION {ApplyLayer(layer, Put(env, key, v), remaining \ {key}) :
                       v \in expandVariables(layer[key], env)} :
              key \in remaining}

\* the derived variables without those of the runner context
DerivedEnvGitHubOnly ==
  addGitHubContextVars(EmptyEnv, GitHubContext)

\* BuildStepEnvironment, lines 437-438: the derived variables
DerivedEnv ==
  addRunnerContextVars(addGitHubContextVars(EmptyEnv, GitHubContext), RunnerContext)

\* BuildStepEnvironment with the step layer applied before the job layer
BuildStepEnvironmentStepBeforeJob(workflowEnv, jobEnv, stepEnv) ==
  LET builtin == DerivedEnv
  IN UNION {UNION {ApplyLayer(jobEnv, e2, DOMAIN jobEnv) :
                     e2 \in ApplyLayer(stepEnv, e1, DOMAIN stepEnv)} :
            e1 \in ApplyLayer(workflowEnv, builtin, DOMAIN workflowEnv)}

\* BuildStepEnvironment: the mappings the call can return
BuildStepEnvironment(workflowEnv, jobEnv, stepEnv) ==
  LET builtin == DerivedEnv
  IN UNION {UNION {ApplyLayer(stepEnv, e2, DOMAIN stepEnv) :
                     e2 \in ApplyLayer(jobEnv, e1, DOMAIN jobEnv)} :
            e1 \in ApplyLayer(workflowEnv, builtin, DOMAIN workflowEnv)}

\* the variables of the workflows: X, which is not a derived variable, with a
\* literal value, a reference to X or to GITHUB_ACTIONS, or a token that
\* expandVariables knows (github.sha) or not (github.job), and CI, which is
\* a derived variable, with a literal
EnvMaps ==
  UNION {[keys -> {<<"1">>, <<"2">>, <<"3">>, <<"$", "X">>,
                   <<"$", "GITHUB_ACTION", "S">>,
                   Token("github", "sha"), Token("github", "job")}] :
           keys \in SUBSET {<<"X">>}}
  \cup {Put(m, <<"CI">>, <<"1">>) :
          m \in UNION {[keys -> {<<"1">>, <<"2">>}] : keys \in SUBSET {<<"X">>}}}

\* strings.HasPrefix, strings.HasSuffix
HasPrefix(s, prefix) == OccursAt(s, prefix, 1)
HasSuffix(s, suffix) ==
  Len(s) >= Len(suffix) /\ OccursAt(s, suffix, Len(s) - Len(suffix) + 1)

\* strings.TrimSpace
RECURSIVE TrimSpace(_)
TrimSpace(s) ==
  IF s # <<>> /\ Head(s) = " " THEN TrimSpace(Tail(s))
  ELSE IF s # <<>> /\ s[Len(s)] = " " THEN TrimSpace(SubSeq(s, 1, Len(s) - 1))
  ELSE s

\* strings.Split for a separator of one symbol
RECURSIVE Split(_, _)
Split(s, sep) ==
  LET i == Index(s, <<sep>>)
  IN IF i = 0 THEN <<s>>
     ELSE <<SubSeq(s, 1, i - 1)>> \o Split(SubSeq(s, i + 1, Len(s)), sep)

\* strings.ToLower, on the symbols that have upper-case letters
ToLower(s) ==
  [i \in DOMAIN s |-> CASE s[i] = "GitHub" -> "github"
                        [] s[i] = "ENV" -> "env"
                        [] s[i] = "FOO" -> "foo"
                        [] OTHER -> s[i]]

(***************************************************************************)
(* expressions.ExpressionEvaluator (evaluator.go)                          *)
(***************************************************************************)
\* getGitHubProperty
getGitHubProperty(context, property) ==
  CASE property = <<"repository">> -> [value |-> context.Github.Repository, err |-> NoError]
    [] property = <<"sha">> -> [value |-> context.Github.SHA, err |-> NoError]
    [] property = <<"ref">> -> [value |-> context.Github.Ref, err |-> NoError]
    [] property = <<"event_name">> -> [value |-> context.Github.EventName, err |-> NoError]
    [] property = <<"actor">> -> [value |-> context.Github.Actor, err |-> NoError]
    [] OTHER -> [value |-> <<>>,
                 err |-> [kind |-> "unknown github property", property |-> property]]

\* getRunnerProperty
getRunnerProperty(context, property) ==
  CASE property = <<"os">> -> [value |-> context.Runner.OS, err |-> NoError]
    [] property = <<"arch">> -> [value |-> context.Runner.Arch, err |-> NoError]
    [] OTHER -> [value |-> <<>>,
                 err |-> [kind |-> "unknown runner property", property |-> property]]

\* evaluateExpression with an absent environment variable read as empty
evaluateExpressionAbsentIsEmpty(context, expr) ==
  LET parts == Split(expr, ".")
  IN IF Len(parts) # 2
     THEN [value |-> expr, err |-> [kind |-> "unsupported expression format", expr |-> expr]]
     ELSE LET contextName == ToLower(parts[1])
              property == parts[2]
          IN CASE contextName = <<"github">> -> getGitHubProperty(context, property)
               [] contextName = <<"env">> ->
                    [value |-> IF property \in DOMAIN context.Env
                               THEN context.Env[property] ELSE <<>>,
                     err |-> NoError]
               [] contextName = <<"runner">> -> getRunnerProperty(context, property)
               [] OTHER -> [value |-> <<>>,
                            err |-> [kind |-> "unknown context", context |-> contextName]]

\* evaluateExpression
evaluateExpression(context, expr) ==
  LET parts == Split(expr, ".")
  IN IF Len(parts) # 2
     THEN [value |-> expr, err |-> [kind |-> "unsupported expression format", expr |-> expr]]
     ELSE LET contextName == ToLower(parts[1])
              property == parts[2]
          IN CASE contextName = <<"github">> -> getGitHubProperty(context, property)
               [] contextName = <<"env">> ->
                    IF property \in DOMAIN context.Env
                    THEN [value |-> context.Env[property], err |-> NoError]
                    ELSE [value |-> <<>>,
                          err |-> [kind |-> "environment variable not found",
                                   property |-> property]]
               [] contextName = <<"runner">> -> getRunnerProperty(context, property)
               [] OTHER -> [value |-> <<>>,
                            err |-> [kind |-> "unknown context", context |-> contextName]]

\* Evaluate
Evaluate(context, expression) ==
  IF ~HasPrefix(expression, <<"$", "{", "{">>) \/ ~HasSuffix(expression, <<"}", "}">>)
  THEN [value |-> expression, err |-> NoError]
  ELSE evaluateExpression(context,
                          TrimSpace(SubSeq(expression, 4, Len(expression) - 2)))

\* expandInputVariables, lines 332-353: the evaluation context of an input
EvaluationContext(environment) ==
  [Github |-> [Repository |-> GitHubContext.Repository, SHA |-> GitHubContext.SHA,
               Ref |-> GitHubContext.Ref, Workspace |-> GitHubContext.Workspace,
               EventName |-> GitHubContext.EventName, Actor |-> GitHubContext.Actor,
               RunID |-> GitHubContext.RunID, RunNumber |-> GitHubContext.RunNumber],
   Env |-> environment,
   Runner |-> [OS |-> <<"Linux">>, Arch |-> <<"X64">>]]

\* replaceExpressions that passes over an occurrence it cannot evaluate
RECURSIVE replaceExpressionsPastFailure(_, _)
replaceExpressionsPastFailure(context, input) ==
  LET start == Index(input, <<"$", "{", "{">>)
      rest == SubSeq(input, start, Len(input))
      close == Index(rest, <<"}", "}">>)
      end == start + close
      evaluated == Evaluate(context, SubSeq(input, start, end))
  IN IF start = 0 \/ close = 0 THEN input
     ELSE SubSeq(input, 1, start - 1)
            \o (IF evaluated.err # NoError THEN SubSeq(input, start, end)
                ELSE evaluated.value)
            \o replaceExpressionsPastFailure(context, SubSeq(input, end + 1, Len(input)))

\* replaceExpressions, lines 363-392: each turn of the loop searches the
\* whole of result again
RECURSIVE replaceExpressions(_, _)
replaceExpressions(context, input) ==
  LET start == Index(input, <<"$", "{", "{">>)
      rest == SubSeq(input, start, Len(input))
      close == Index(rest, <<"}", "}">>)
      end == start + close
      evaluated == Evaluate(context, SubSeq(input, start, end))
  IN IF start = 0 \/ close = 0 THEN input
     ELSE IF evaluated.err # NoError THEN input
     ELSE replaceExpressions(context,
            SubSeq(input, 1, start - 1) \o evaluated.value
              \o SubSeq(input, end + 1, Len(input)))

\* the text "${{c.p}}" and texts that are no dotted pair
TightToken(c, p) == <<"$", "{", "{", c, ".", p, "}", "}">>
OnePartToken(c) == <<"$", "{", "{", " ", c, " ", "}", "}">>
ThreePartToken(c, p) == <<"$", "{", "{", " ", c, ".", p, ".", p, " ", "}", "}">>

\* the context names and property names of the expressions given to Evaluate
ContextNames == {"github", "GitHub", "runner", "env", "bogus"}
PropertyNames == {"repository", "sha", "ref", "event_name", "actor", "workspace",
                  "os", "arch", "temp", "FOO", "BAR"}
Expressions ==
  {Token(c, p) : c \in ContextNames, p \in PropertyNames}
  \cup {TightToken(c, p) : c \in {"github", "env"}, p \in {"sha", "FOO"}}
  \cup {OnePartToken(c) : c \in {"github", "env"}}
  \cup {ThreePartToken(c, p) : c \in {"github", "env"}, p \in {"sha", "FOO"}}
  \cup {<<"sha">>, <<"$", "{", "{", "}", "}">>}

\* the pieces of the strings given to replaceExpressions: plain text, two
\* expressions that evaluate (env.FOO only when FOO is set) and two that do not
Pieces ==
  {<<"a", " ">>, <<"}", "}">>,
   Token("github", "sha"), Token("env", "FOO"),
   Token("bogus", "x"), Token("github", "nope")}

RECURSIVE Concat(_)
Concat(pieces) == IF pieces = <<>> THEN <<>> ELSE Head(pieces) \o Concat(Tail(pieces))

\* the environments of the evaluation context
EvalEnvs == {EmptyEnv, [k \in {<<"FOO">>} |-> <<"bar">>]}

(***************************************************************************)
(* actions.ActionResolver (part_001) and the ValidateInputs of the two     *)
(* built-in actions.                                                       *)
(***************************************************************************)
\* registerBuiltinActions: the registry, action name to executor
BuiltinActions ==
  [name \in {<<"actions/checkout">>, <<"actions/setup-node">>} |->
     IF name = <<"actions/checkout">> THEN "CheckoutAction" ELSE "SetupNodeAction"]

\* CheckoutAction.ValidateInputs (docker.go, lines 466-470) and
\* SetupNodeAction.ValidateInputs (part_000, lines 113-121)
ValidateInputs(executor, inputs) ==
  IF executor = "SetupNodeAction"
     /\ "node-version" \in DOMAIN inputs /\ inputs["node-version"] = <<>>
  THEN [kind |-> "node-version cannot be empty"]
  ELSE NoError

\* normalizeActionRef
normalizeActionRef(actionRef) == Split(actionRef, "@")[1]

\* listSupportedActions: the names, joined in the order the registry is ranged over
listSupportedActions(builtinActions, order) == order

\* ResolveAction looking the reference up as it is written
ResolveActionVersioned(builtinActions, actionRef, inputs, order) ==
  IF actionRef \in DOMAIN builtinActions
  THEN LET executor == builtinActions[actionRef]
           invalid == ValidateInputs(executor, inputs)
       IN IF invalid # NoError
          THEN [executor |-> "nil",
                err |-> [kind |-> "invalid inputs", actionRef |-> actionRef,
                         cause |-> invalid]]
          ELSE [executor |-> executor, err |-> NoError]
  ELSE [executor |-> "nil",
        err |-> [kind |-> "action not supported", actionRef |-> actionRef,
                 available |-> listSupportedActions(builtinActions, order)]]

\* ResolveAction; order is the order in which listSupportedActions ranges
\* over the registry
ResolveAction(builtinActions, actionRef, inputs, order) ==
  LET name == normalizeActionRef(actionRef)
  IN IF name \in DOMAIN builtinActions
     THEN LET executor == builtinActions[name]
              invalid == ValidateInputs(executor, inputs)
          IN IF invalid # NoError
             THEN [executor |-> "nil",
                   err |-> [kind |-> "invalid inputs", actionRef |-> actionRef,
                            cause |-> invalid]]
             ELSE [executor |-> executor, err |-> NoError]
     ELSE [executor |-> "nil",
           err |-> [kind |-> "action not supported", actionRef |-> actionRef,
                    available |-> listSupportedActions(builtinActions, order)]]

\* the references given to ResolveAction: a name, then nothing, one version
\* tag, or a tag that holds an "@" itself
ActionNames == {<<"actions/checkout">>, <<"actions/setup-node">>, <<"actions/cache">>, <<>>}
VersionTags == {<<>>, <<"@", "v3">>, <<"@", "v4">>, <<"@", "v3", "@", "v4">>, <<"@">>}
ActionRefs == {name \o tag : name \in ActionNames, tag \in VersionTags}

\* the inputs given to ResolveAction
ActionInputs ==
  {NoInputs, [k \in {"node-version"} |-> <<"18">>], [k \in {"node-version"} |-> <<>>]}

(***************************************************************************)
(* executor: executeRunStep, executeActionStep and the dispatch on the     *)
(* step type in executeJob.  Each yields (stepSuccess, stepError);         *)
(* executed tells whether the command or the action's Execute was run.     *)
(***************************************************************************)
ExecuteRunStep(jr, exec) ==
  LET r == RunStep(jr, exec)
  IN IF r.err # NoError \/ ~r.Success
     THEN [success |-> FALSE, err |-> r.err, executed |-> jr.isRunning]
     ELSE [success |-> TRUE, err |-> NoError, executed |-> TRUE]

\* executeActionStep, lines 246-254: the inputs, each expanded by
\* expandInputVariables in the step environment (the workflows of the runs
\* define no variables, so that is the derived variables)
ExpandedInputs(step) ==
  [k \in DOMAIN step.With |->
     replaceExpressions(EvaluationContext(DerivedEnv), step.With[k])]

\* executeActionStep failing the step when an expression of an input was
\* left unevaluated
ExecuteActionStepStrict(step, actionOk, order) ==
  LET inputs == ExpandedInputs(step)
      r == ResolveAction(BuiltinActions, step.Uses, inputs, order)
  IN IF \E k \in DOMAIN inputs : Index(inputs[k], <<"$", "{", "{">>) # 0
     THEN [success |-> FALSE, err |-> [kind |-> "expression_failed"],
           executed |-> FALSE]
     ELSE IF r.err # NoError
     THEN [success |-> FALSE, err |-> r.err, executed |-> FALSE]
     ELSE [success |-> actionOk,
           err |-> IF actionOk THEN NoError
                   ELSE [kind |-> "action_failed", action |-> step.Uses],
           executed |-> TRUE]

\* executeActionStep; actionOk: the action's Execute reported success
ExecuteActionStep(step, actionOk, order) ==
  LET r == ResolveAction(BuiltinActions, step.Uses, ExpandedInputs(step), order)
  IN IF r.err # NoError
     THEN [success |-> FALSE, err |-> r.err, executed |-> FALSE]
     ELSE IF actionOk
     THEN [success |-> TRUE, err |-> NoError, executed |-> TRUE]
     ELSE [success |-> FALSE, err |-> [kind |-> "action_failed", action |-> step.Uses],
           executed |-> TRUE]

\* executeJob, lines 198-203: the step goes to executeRunStep
IsRunStep(step) == step.Uses = <<>> /\ step.Run # ""

ExecuteStep(step, jr, exec, actionOk, order) ==
  IF step.Uses # <<>> THEN ExecuteActionStep(step, actionOk, order)
  ELSE IF step.Run # "" THEN ExecuteRunStep(jr, exec)
  ELSE [success |-> FALSE, err |-> [kind |-> "neither_uses_nor_run"],
        executed |-> FALSE]

\* if stepError != nil || !stepSuccess
StepFailed(outcome) == outcome.err # NoError \/ ~outcome.success

(***************************************************************************)
(* State of one run of WorkflowExecutor.Execute.                           *)
(***************************************************************************)
VARIABLES
  workflowDef,     \* we.workflowDef, the parsed workflow
  workflowState,   \* we.workflowState, the status tree
  executionOrder,  \* Execute's local executionOrder
  pc,              \* where the engine is
  jobIdx,          \* position in executionOrder of the job last entered
  stepIdx,         \* position in job.Steps of the step last entered
  stopDeferred,    \* executeJob has registered its deferred jobRunner.Stop
  jobErr,          \* the value executeJob returns once its deferred call ran
  retVal,          \* the value Execute returns once its deferred Close ran
  jobRunner,       \* the JobRunner of the current job
  live,            \* ids of the containers docker still runs
  jobLoggers,      \* we.logger.jobLoggers, by job id
  startCalls,      \* number of jobRunner.Start calls, by job id
  stopCalls,       \* number of jobRunner.Stop calls, by job id
  executed,        \* the steps whose command or action was run, in order
  lastRun          \* the last RunStep call of the run: its step, the exec and the result

\* State of an EnvironmentManager and of its last BuildStepEnvironment call.
VARIABLES
  em,              \* the EnvironmentManager: workflowEnv and jobEnv
  lastBuild,       \* the BuildStepEnvironment call last made on em as it is
  currentJobEnv,   \* job.Env of the job that executeJob is running
  earlierJobKeys   \* the keys, derived ones aside, of job.Env of the earlier jobs

\* State of an ExpressionEvaluator and of the call made on it.
VARIABLES
  evaluator,       \* the evaluator's EvaluationContext
  exprArg,         \* the string the call is given
  exprCall         \* the call made: its name and what it returned

\* State of an ActionResolver and of the ResolveAction call made on it.
VARIABLES
  ar,              \* the ActionResolver: its builtinActions
  resolveArg,      \* the arguments of the call: actionRef and inputs
  resolveRet       \* what the call returned: executor and err

\* State of one call of JobRunner.RunStep on a running container.
VARIABLES
  cmd,             \* the docker exec process: "running" or "exited"
  written,         \* number of lines the process wrote in full, by stream
  midLine,         \* whether the process wrote the first part of its next line, by stream
  pipes,           \* what each pipe holds that no Read took, and whether Wait closed it
  readers,         \* the two streamOutputToLogger goroutines, each with what its
                   \* scanner has read into its buffer and not handed out, and
                   \* the writes its writeJobLog call has still to make
  jlMu,            \* jl.mu of the job logger: "free" or the stream of the reader that holds it
  jobLogFile,      \* the job file: the symbols written to it, in order
  jobLog,          \* the lines whose LogStepOutput call wrote its log line, in order
  runStep          \* RunStep itself: "waiting" in cmd.Wait, or "returned"

\* State of one call of SetupNodeAction.Execute on a running container.
VARIABLES
  actionCtx,       \* the ActionContext of the call: its Inputs
  containerCmds,   \* the commands run in the container, in order, and how each ended
  actionResult     \* what Execute returned: the ActionResult and err

\* State of a JobRunner and of the calls made on it.
VARIABLES
  runsOn,          \* the runs-on value NewJobRunner was given
  jrImage,         \* the JobRunner's image
  jrState,         \* the JobRunner's isRunning and containerID
  dockerCmds,      \* the docker commands the JobRunner issued, in order
  jrCall           \* the last call: its name, the state before it and what it returned

\* State of a WorkflowLogger and of one of its JobLoggers: the log files.
VARIABLES
  workflowFile,    \* the text of workflow.log
  jobFile,         \* the text of the job's log file
  logCalls,        \* number of Log calls made
  wlJobLoggers,    \* WorkflowLogger.jobLoggers: the jobs that have a JobLogger
  wlClose,         \* "open", "closed" after Close returned, "blocked" inside Close
  logCall          \* the Log call the engine's goroutine is in: the file and the
                   \* messages it has still to write

\* State of one call of the engine's replaceExpressions: its loop.
VARIABLES
  loopEvaluator,   \* the EvaluationContext of the evaluator passed to the call
  loopResult,      \* the local variable result
  loopPc,          \* "loop" at the head of the for loop, "returned" after it
  turns            \* the values result had at the head of the earlier turns of the loop

engineVars == <<workflowDef, workflowState, executionOrder, pc, jobIdx, stepIdx,
                stopDeferred, jobErr, retVal, jobRunner, live, jobLoggers,
                startCalls, stopCalls, executed, lastRun>>
envVars == <<em, lastBuild, currentJobEnv, earlierJobKeys>>
exprVars == <<evaluator, exprArg, exprCall>>
resolverVars == <<ar, resolveArg, resolveRet>>
runStepVars == <<cmd, written, midLine, pipes, readers, jlMu, jobLogFile,
                 jobLog, runStep>>
setupNodeVars == <<actionCtx, containerCmds, actionResult>>
jobRunnerVars == <<runsOn, jrImage, jrState, dockerCmds, jrCall>>
loggerVars == <<workflowFile, jobFile, logCalls, wlJobLoggers, wlClose, logCall>>
loopVars == <<loopEvaluator, loopResult, loopPc, turns>>

vars == <<engineVars, envVars, exprVars, resolverVars, runStepVars,
          setupNodeVars,
          jobRunnerVars,
          loggerVars,
          loopVars>>

\* the variables a run of Execute leaves alone
outsideEngine == <<envVars, exprVars, resolverVars, runStepVars,
                   setupNodeVars,
                   jobRunnerVars,
                   loggerVars,
                   loopVars>>
\* the variables the calls on an EnvironmentManager leave alone
outsideEnv == <<engineVars, exprVars, resolverVars, runStepVars,
                setupNodeVars,
                jobRunnerVars,
                loggerVars,
                loopVars>>
\* the variables the calls on an ExpressionEvaluator leave alone
outsideExpr == <<engineVars, envVars, resolverVars, runStepVars,
                 setupNodeVars,
                 jobRunnerVars,
                 loggerVars,
                 loopVars>>
\* the variables the calls on an ActionResolver leave alone
outsideResolver == <<engineVars, envVars, exprVars, runStepVars,
                     setupNodeVars,
                     jobRunnerVars,
                     loggerVars,
                     loopVars>>
\* the variables a call of RunStep leaves alone
outsideRunStep == <<engineVars, envVars, exprVars, resolverVars,
                    setupNodeVars,
                    jobRunnerVars,
                    loggerVars,
                    loopVars>>
\* the variables a call of SetupNodeAction.Execute leaves alone
outsideSetupNode == <<engineVars, envVars, exprVars, resolverVars, runStepVars,
                      jobRunnerVars,
                      loggerVars,
                      loopVars>>
\* the variables the calls on a JobRunner leave alone
outsideJobRunner == <<engineVars, envVars, exprVars, resolverVars, runStepVars, setupNodeVars,
                      loggerVars,
                      loopVars>>
\* the variables the calls on the loggers leave alone
outsideLogger == <<engineVars, envVars, exprVars, resolverVars, runStepVars, setupNodeVars, jobRunnerVars,
                   loopVars>>
\* the variables a call of replaceExpressions leaves alone
outsideLoop == <<engineVars, envVars, exprVars, resolverVars, runStepVars, setupNodeVars, jobRunnerVars, loggerVars>>

NotReturned == [kind |-> "none"]

\* the value of the variables of a component that was not constructed
Nil == "nil"

\* no call on an EnvironmentManager was made
NotBuilt == [called |-> FALSE, stepEnv |-> EmptyEnv, env |-> EmptyEnv]

\* no EnvironmentManager is in use
EnvIdle ==
  /\ em = Nil
  /\ lastBuild = Nil
  /\ currentJobEnv = Nil
  /\ earlierJobKeys = Nil

\* no call on an ExpressionEvaluator was made
NoCall == [op |-> "none", value |-> <<>>, err |-> NoError]

\* no ExpressionEvaluator is in use
ExprIdle ==
  /\ evaluator = Nil
  /\ exprArg = Nil
  /\ exprCall = Nil

\* ResolveAction was not called
NotResolved == [called |-> FALSE, executor |-> "nil", err |-> NoError]

\* no ActionResolver is in use
ResolverIdle ==
  /\ ar = Nil
  /\ resolveArg = Nil
  /\ resolveRet = Nil

\* no RunStep call is under way
RunStepIdle ==
  /\ cmd = Nil
  /\ written = Nil
  /\ midLine = Nil
  /\ pipes = Nil
  /\ readers = Nil
  /\ jlMu = Nil
  /\ jobLogFile = Nil
  /\ jobLog = Nil
  /\ runStep = Nil

\* no SetupNodeAction.Execute call is under way
SetupNodeIdle ==
  /\ actionCtx = Nil
  /\ containerCmds = Nil
  /\ actionResult = Nil

\* no JobRunner is in use
JobRunnerIdle ==
  /\ runsOn = Nil
  /\ jrImage = Nil
  /\ jrState = Nil
  /\ dockerCmds = Nil
  /\ jrCall = Nil

\* no RunStep call was made in the run
NoRun == [job |-> "", step |-> 0]

\* no WorkflowLogger is in use
LoggerIdle ==
  /\ workflowFile = Nil
  /\ jobFile = Nil
  /\ logCalls = Nil
  /\ wlJobLoggers = Nil
  /\ wlClose = Nil
  /\ logCall = Nil

\* replaceExpressions is not running
LoopIdle ==
  /\ loopEvaluator = Nil
  /\ loopResult = Nil
  /\ loopPc = Nil
  /\ turns = Nil

\* no WorkflowExecutor is in use
EngineIdle ==
  /\ workflowDef = Nil
  /\ workflowState = Nil
  /\ executionOrder = Nil
  /\ pc = Nil
  /\ jobIdx = Nil
  /\ stepIdx = Nil
  /\ stopDeferred = Nil
  /\ jobErr = Nil
  /\ retVal = Nil
  /\ jobRunner = Nil
  /\ live = Nil
  /\ jobLoggers = Nil
  /\ startCalls = Nil
  /\ stopCalls = Nil
  /\ executed = Nil
  /\ lastRun = Nil

Init ==
  /\ IsWorkflow(workflowDef)
  /\ workflowState = NewWorkflowState
  /\ executionOrder = <<>>
  /\ pc = "start"
  /\ jobIdx = 0
  /\ stepIdx = 0
  /\ stopDeferred = FALSE
  /\ jobErr = NoError
  /\ retVal = NotReturned
  /\ jobRunner = NewJobRunner
  /\ live = {}
  /\ jobLoggers = {}
  /\ startCalls = [j \in JobIds |-> 0]
  /\ stopCalls = [j \in JobIds |-> 0]
  /\ executed = <<>>
  /\ lastRun = NoRun
  /\ EnvIdle
  /\ ExprIdle
  /\ ResolverIdle
  /\ RunStepIdle
  /\ SetupNodeIdle
  /\ JobRunnerIdle
  /\ LoggerIdle
  /\ LoopIdle

CurrentJobID == executionOrder[jobIdx]
CurrentJob == workflowDef.Jobs[CurrentJobID]
CurrentStep == CurrentJob.Steps[stepIdx]

\* Execute, lines 82-97: one pending job state per planned job, with one
\* pending step state per step
InitialJobState(w, jobID) ==
  [NewJobState(jobID) EXCEPT
     !.Steps = [n \in 1..Len(w.Jobs[jobID].Steps) |->
                  NewStepState(StepDisplayName(w.Jobs[jobID].Steps[n], n))]]

\* Execute going on to the next job whatever executeJob returned
AbortsRunNever(err) == FALSE

\* Execute, line 104: "if err := we.executeJob(jobID); err != nil"
AbortsRun(err) == err # NoError

\* the run failing and marking Skipped every job that is still Pending
FailRunSkippingPending(ws, jobID, err) ==
  [ws |-> [ws EXCEPT !.Status = StatusFailure,
                     !.Jobs = [j \in DOMAIN ws.Jobs |->
                                 IF ws.Jobs[j].Status = StatusPending
                                 THEN WithStatus(ws.Jobs[j], StatusSkipped)
                                 ELSE ws.Jobs[j]]],
   ret |-> [kind |-> "job_failed", job |-> jobID, cause |-> err]]

\* Execute, lines 105-108: the run fails with the job's error
FailRun(ws, jobID, err) ==
  [ws |-> [ws EXCEPT !.Status = StatusFailure],
   ret |-> [kind |-> "job_failed", job |-> jobID, cause |-> err]]

\* executeJob, lines 161-165: on return the deferred function, if it was
\* registered, calls jobRunner.Stop once; a Stop error is logged and dropped
RunDeferredStop(deferred, jr, dockerOk) ==
  IF deferred
  THEN LET r == Stop(jr, dockerOk)
       IN [jr |-> r.jr, calls |-> 1, stopped |-> r.issued /\ r.err = NoError]
  ELSE [jr |-> jr, calls |-> 0, stopped |-> FALSE]

\* the orders of the first loop of BuildExecutionPlan, one for each graph
\* (or error) the loop can end with: two orders that build the same graph
\* give the same plans
GraphOrders(w) ==
  LET orders == Perms(DOMAIN w.Jobs)
      graphs == {BuildGraph(w, order) : order \in orders}
  IN {CHOOSE order \in orders : BuildGraph(w, order) = g : g \in graphs}

\* the orders of the second loop, one for each initial queue it can build;
\* the loop is not reached when the first returned an error
QueueOrders(w, order1) ==
  LET orders == Perms(DOMAIN w.Jobs)
      g == BuildGraph(w, order1)
      queues == {InitialQueue(g.inDegree, order) : order \in orders}
  IN IF g.err # NoError THEN {order1}
     ELSE {CHOOSE order \in orders : InitialQueue(g.inDegree, order) = q : q \in queues}

\* Execute, lines 62-100: build the plan and the pending state tree
ExecuteStart ==
  /\ pc = "start"
  /\ \E order1 \in GraphOrders(workflowDef) :
     \E order2 \in QueueOrders(workflowDef, order1) :
       LET plan == BuildExecutionPlan(workflowDef, order1, order2)
       IN IF plan.err # NoError
          THEN /\ retVal' = [kind |-> "plan_failed", cause |-> plan.err]
               /\ pc' = "close"
               /\ UNCHANGED <<workflowState, executionOrder>>
          ELSE /\ executionOrder' = plan.order
               /\ workflowState' =
                    [workflowState EXCEPT
                       !.Jobs = [j \in Range(plan.order) |->
                                   InitialJobState(workflowDef, j)]]
               /\ pc' = "jobs"
               /\ UNCHANGED retVal
  /\ UNCHANGED <<workflowDef, jobIdx, stepIdx, stopDeferred, jobErr, jobRunner,
                 live, jobLoggers, startCalls, stopCalls>>
  /\ UNCHANGED <<executed, lastRun>>
  /\ UNCHANGED outsideEngine

\* Execute, line 103, and executeJob, lines 122-147: enter the next job
EnterJob ==
  /\ pc = "jobs"
  /\ jobIdx < Len(executionOrder)
  /\ jobIdx' = jobIdx + 1
  /\ stopDeferred' = FALSE
  /\ \E createOk \in BOOLEAN :
       LET jobID == executionOrder[jobIdx + 1]
           got == GetJobLogger(jobLoggers, jobID, createOk)
       IN IF got.err # NoError
          THEN /\ jobErr' = [kind |-> "job_logger", cause |-> got.err]
               /\ pc' = "job_return"
               /\ UNCHANGED <<jobLoggers, jobRunner, workflowState>>
          ELSE /\ jobLoggers' = got.loggers
               /\ workflowState' = UpdateJobStatus(workflowState, jobID, StatusRunning)
               /\ jobRunner' = NewJobRunner
               /\ jobErr' = NoError
               /\ pc' = "container"
  /\ UNCHANGED <<workflowDef, executionOrder, stepIdx, retVal, live,
                 startCalls, stopCalls>>
  /\ UNCHANGED <<executed, lastRun>>
  /\ UNCHANGED outsideEngine

\* Execute, lines 112-118: every job returned nil
ExecuteComplete ==
  /\ pc = "jobs"
  /\ jobIdx = Len(executionOrder)
  /\ workflowState' = [workflowState EXCEPT !.Status = StatusSuccess]
  /\ retVal' = NoError
  /\ pc' = "close"
  /\ UNCHANGED <<workflowDef, executionOrder, jobIdx, stepIdx, stopDeferred, jobErr,
                 jobRunner, live, jobLoggers, startCalls, stopCalls>>
  /\ UNCHANGED <<executed, lastRun>>
  /\ UNCHANGED outsideEngine

\* executeJob, lines 149-165: start the container; the deferred Stop is
\* registered only after Start succeeded
StartContainer ==
  /\ pc = "container"
  /\ startCalls' = [startCalls EXCEPT ![CurrentJobID] = @ + 1]
  /\ \E dockerOk \in BOOLEAN :
       LET r == Start(jobRunner, dockerOk, CurrentJobID)
       IN IF r.err # NoError
          THEN /\ workflowState' =
                    UpdateJobStatus(workflowState, CurrentJobID, StatusFailure)
               /\ jobErr' = [kind |-> "start_container", cause |-> r.err]
               /\ pc' = "job_return"
               /\ UNCHANGED <<jobRunner, live, stepIdx, stopDeferred>>
          ELSE /\ jobRunner' = r.jr
               /\ live' = live \cup {r.jr.containerID}
               /\ stopDeferred' = TRUE
               /\ stepIdx' = 0
               /\ pc' = "steps"
               /\ UNCHANGED <<workflowState, jobErr>>
  /\ UNCHANGED <<workflowDef, executionOrder, jobIdx, retVal, jobLoggers, stopCalls>>
  /\ UNCHANGED <<executed, lastRun>>
  /\ UNCHANGED outsideEngine

\* executeJob, lines 180-193: enter the next step
EnterStep ==
  /\ pc = "steps"
  /\ stepIdx < Len(CurrentJob.Steps)
  /\ stepIdx' = stepIdx + 1
  /\ workflowState' =
       UpdateStepStatus(workflowState, CurrentJobID,
                        StepDisplayName(CurrentJob.Steps[stepIdx + 1], stepIdx + 1),
                        StatusRunning)
  /\ pc' = "step"
  /\ UNCHANGED <<workflowDef, executionOrder, jobIdx, stopDeferred, jobErr, retVal,
                 jobRunner, live, jobLoggers, startCalls, stopCalls>>
  /\ UNCHANGED <<executed, lastRun>>
  /\ UNCHANGED outsideEngine

\* executeJob, lines 195-229: execute the step and record how it ended
FinishStep ==
  /\ pc = "step"
  /\ \E exec \in DockerExecs, actionOk \in BOOLEAN,
          order \in Perms(DOMAIN BuiltinActions) :
       LET outcome == ExecuteStep(CurrentStep, jobRunner, exec, actionOk, order)
           stepName == StepDisplayName(CurrentStep, stepIdx)
       IN /\ executed' = IF outcome.executed
                         THEN Append(executed, <<CurrentJobID, stepIdx>>)
                         ELSE executed
          /\ lastRun' = IF IsRunStep(CurrentStep)
                        THEN [job |-> CurrentJobID, step |-> stepIdx, exec |-> exec,
                              result |-> RunStep(jobRunner, exec)]
                        ELSE lastRun
          /\ IF StepFailed(outcome)
             THEN /\ workflowState' =
                       UpdateJobStatus(
                         UpdateStepStatus(workflowState, CurrentJobID, stepName,
                                          StatusFailure),
                         CurrentJobID, StatusFailure)
                  /\ jobErr' = [kind |-> "step_failed", step |-> stepName,
                                cause |-> outcome.err]
                  /\ pc' = "job_return"
             ELSE /\ workflowState' =
                       UpdateStepStatus(workflowState, CurrentJobID, stepName,
                                        StatusSuccess)
                  /\ pc' = "steps"
                  /\ UNCHANGED jobErr
  /\ UNCHANGED <<workflowDef, executionOrder, jobIdx, stepIdx, stopDeferred, retVal,
                 jobRunner, live, jobLoggers, startCalls, stopCalls>>
  /\ UNCHANGED outsideEngine

\* executeJob, lines 231-237: every step succeeded
CompleteJob ==
  /\ pc = "steps"
  /\ stepIdx = Len(CurrentJob.Steps)
  /\ workflowState' = UpdateJobStatus(workflowState, CurrentJobID, StatusSuccess)
  /\ jobErr' = NoError
  /\ pc' = "job_return"
  /\ UNCHANGED <<workflowDef, executionOrder, jobIdx, stepIdx, stopDeferred, retVal,
                 jobRunner, live, jobLoggers, startCalls, stopCalls>>
  /\ UNCHANGED <<executed, lastRun>>
  /\ UNCHANGED outsideEngine

\* executeJob returns: its deferred call runs (lines 161-165), and Execute,
\* lines 104-109, acts on the error it returned
ReturnFromJob ==
  /\ pc = "job_return"
  /\ \E dockerOk \in BOOLEAN :
       LET d == RunDeferredStop(stopDeferred, jobRunner, dockerOk)
       IN /\ jobRunner' = d.jr
          /\ stopCalls' = [stopCalls EXCEPT ![CurrentJobID] = @ + d.calls]
          /\ live' = IF d.stopped THEN live \ {jobRunner.containerID} ELSE live
  /\ IF AbortsRun(jobErr)
     THEN LET f == FailRun(workflowState, CurrentJobID, jobErr)
          IN /\ workflowState' = f.ws
             /\ retVal' = f.ret
             /\ pc' = "close"
     ELSE /\ pc' = "jobs"
          /\ UNCHANGED <<workflowState, retVal>>
  /\ UNCHANGED <<workflowDef, executionOrder, jobIdx, stepIdx, stopDeferred, jobErr,
                 jobLoggers, startCalls>>
  /\ UNCHANGED <<executed, lastRun>>
  /\ UNCHANGED outsideEngine

\* Execute, line 64: the deferred we.logger.Close() runs; Execute returns
\* retVal to its caller only if Close returns
CloseLogger ==
  /\ pc = "close"
  /\ pc' = IF CloseReturns(jobLoggers) THEN "returned" ELSE "blocked"
  /\ UNCHANGED <<workflowDef, workflowState, executionOrder, jobIdx, stepIdx,
                 stopDeferred, jobErr, retVal, jobRunner, live, jobLoggers,
                 startCalls, stopCalls>>
  /\ UNCHANGED <<executed, lastRun>>
  /\ UNCHANGED outsideEngine

Next ==
  \/ ExecuteStart
  \/ EnterJob
  \/ ExecuteComplete
  \/ StartContainer
  \/ EnterStep
  \/ FinishStep
  \/ CompleteJob
  \/ ReturnFromJob
  \/ CloseLogger

Spec == Init /\ [][Next]_vars

(***************************************************************************)
(* Calls on an EnvironmentManager: NewEnvironmentManager, then             *)
(* SetJobEnvironment and BuildStepEnvironment in any order.                *)
(***************************************************************************)
\* NewEnvironmentManager, lines 416-425
EnvInit ==
  /\ \E workflowEnv \in EnvMaps : em = [workflowEnv |-> workflowEnv, jobEnv |-> EmptyEnv]
  /\ lastBuild = NotBuilt
  /\ currentJobEnv = EmptyEnv
  /\ earlierJobKeys = {}
  /\ EngineIdle
  /\ ExprIdle
  /\ ResolverIdle
  /\ RunStepIdle
  /\ SetupNodeIdle
  /\ JobRunnerIdle
  /\ LoggerIdle
  /\ LoopIdle

\* a SetJobEnvironment that keeps the stored mapping when the job declares
\* no variables
SetJobEnvironmentWhenDeclared(e, jobEnv) ==
  IF jobEnv = EmptyEnv THEN e ELSE [e EXCEPT !.jobEnv = jobEnv]

\* SetJobEnvironment, lines 428-430
SetJobEnvironment(e, jobEnv) == [e EXCEPT !.jobEnv = jobEnv]

\* executeJob configures the EnvironmentManager for the next job with its
\* job.Env, engine.go line 135
CallSetJobEnvironment ==
  /\ \E jobEnv \in EnvMaps :
       /\ em' = SetJobEnvironment(em, jobEnv)
       /\ currentJobEnv' = jobEnv
  /\ earlierJobKeys' = earlierJobKeys \cup (DOMAIN currentJobEnv \ DOMAIN DerivedEnv)
  /\ lastBuild' = NotBuilt
  /\ UNCHANGED outsideEnv

\* a call of BuildStepEnvironment, lines 433-456
BuildStepEnv ==
  /\ \E stepEnv \in EnvMaps :
       \E env \in BuildStepEnvironment(em.workflowEnv, em.jobEnv, stepEnv) :
         lastBuild' = [called |-> TRUE, stepEnv |-> stepEnv, env |-> env]
  /\ UNCHANGED <<em, currentJobEnv, earlierJobKeys>>
  /\ UNCHANGED outsideEnv

EnvNext ==
  \/ CallSetJobEnvironment
  \/ BuildStepEnv

EnvSpec == EnvInit /\ [][EnvNext]_vars

(***************************************************************************)
(* Calls on an ExpressionEvaluator: NewExpressionEvaluator, then one call  *)
(* of Evaluate or of the engine's replaceExpressions with a string.        *)
(***************************************************************************)
\* the strings of at most MaxPieces pieces
PieceStrings == {Concat(pieces) : pieces \in BSeq(Pieces, MaxPieces)}

\* NewExpressionEvaluator, lines 51-55
ExprInit ==
  /\ \E environment \in EvalEnvs : evaluator = EvaluationContext(environment)
  /\ exprArg \in Expressions \cup PieceStrings
  /\ exprCall = NoCall
  /\ EngineIdle
  /\ EnvIdle
  /\ ResolverIdle
  /\ RunStepIdle
  /\ SetupNodeIdle
  /\ JobRunnerIdle
  /\ LoggerIdle
  /\ LoopIdle

\* a call of Evaluate, lines 58-70
CallEvaluate ==
  /\ exprCall.op = "none"
  /\ LET r == Evaluate(evaluator, exprArg)
     IN exprCall' = [op |-> "Evaluate", value |-> r.value, err |-> r.err]
  /\ UNCHANGED <<evaluator, exprArg>>
  /\ UNCHANGED outsideExpr

\* a call of replaceExpressions, engine.go lines 363-392
CallReplaceExpressions ==
  /\ exprCall.op = "none"
  /\ exprCall' = [op |-> "replaceExpressions",
                  value |-> replaceExpressions(evaluator, exprArg), err |-> NoError]
  /\ UNCHANGED <<evaluator, exprArg>>
  /\ UNCHANGED outsideExpr

ExprNext ==
  \/ CallEvaluate
  \/ CallReplaceExpressions

ExprSpec == ExprInit /\ [][ExprNext]_vars

(***************************************************************************)
(* Calls on an ActionResolver: NewActionResolver, then one ResolveAction.  *)
(***************************************************************************)
\* NewActionResolver, part_001 lines 64-74
ResolverInit ==
  /\ ar = BuiltinActions
  /\ resolveArg \in [actionRef : ActionRefs, inputs : ActionInputs]
  /\ resolveRet = NotResolved
  /\ EngineIdle
  /\ EnvIdle
  /\ ExprIdle
  /\ RunStepIdle
  /\ SetupNodeIdle
  /\ JobRunnerIdle
  /\ LoggerIdle
  /\ LoopIdle

\* a call of ResolveAction, part_001 lines 77-91
CallResolveAction ==
  /\ ~resolveRet.called
  /\ \E order \in Perms(DOMAIN ar) :
       LET r == ResolveAction(ar, resolveArg.actionRef, resolveArg.inputs, order)
       IN resolveRet' = [called |-> TRUE, executor |-> r.executor, err |-> r.err]
  /\ UNCHANGED <<ar, resolveArg>>
  /\ UNCHANGED outsideResolver

ResolverNext ==
  \/ CallResolveAction

ResolverSpec == ResolverInit /\ [][ResolverNext]_vars

(***************************************************************************)
(* One call of SetupNodeAction.Execute (part_000, lines 123-188) on a      *)
(* running container.  Each command is a "docker exec" that ends well or   *)
(* not; runInContainer and getCommandOutput (lines 190-205) return its     *)
(* error.                                                                  *)
(***************************************************************************)
\* lines 137-140
PrerequisiteCommands ==
  <<<<"apt-get update">>, <<"apt-get install -y curl ca-certificates gnupg">>>>

\* lines 124-127: the version asked for, 18 when none is
NodeVersion(inputs) ==
  IF "node-version" \in DOMAIN inputs /\ inputs["node-version"] # <<>>
  THEN inputs["node-version"]
  ELSE <<"18">>

\* lines 151-154
InstallCommands(nodeVersion) ==
  <<<<"curl -fsSL https://deb.nodesource.com/setup_">> \o nodeVersion \o <<".x | bash -">>,
    <<"apt-get install -y nodejs">>>>

\* lines 166, 176 and 183
NodeVersionCommand == <<"node --version">>
NpmVersionCommand == <<"npm --version">>
CacheSetupCommand ==
  <<"mkdir -p /home/runner/.npm && npm config set cache /home/runner/.npm">>

\* the inputs Execute is called with: those ValidateInputs accepts
SetupNodeInputs ==
  {inputs \in ActionInputs \cup {[k \in {"node-version"} |-> <<"20">>]} :
     ValidateInputs("SetupNodeAction", inputs) = NoError}

\* a command was run in the container
Ran(command, ok) == Append(containerCmds, [command |-> command, ok |-> ok])

\* lines 124-134: the call starts with result.Success = true and no output
SetupNodeInit ==
  /\ \E inputs \in SetupNodeInputs : actionCtx = [Inputs |-> inputs]
  /\ containerCmds = <<>>
  /\ actionResult = [returned |-> FALSE, Success |-> TRUE, Outputs |-> {},
                     err |-> NoError]
  /\ EngineIdle
  /\ EnvIdle
  /\ ExprIdle
  /\ ResolverIdle
  /\ RunStepIdle
  /\ JobRunnerIdle
  /\ LoggerIdle
  /\ LoopIdle

\* lines 142-148: a prerequisite command; its failure is logged and ignored
RunPrerequisite ==
  /\ ~actionResult.returned
  /\ Len(containerCmds) < Len(PrerequisiteCommands)
  /\ \E ok \in BOOLEAN :
       containerCmds' = Ran(PrerequisiteCommands[Len(containerCmds) + 1], ok)
  /\ UNCHANGED <<actionCtx, actionResult>>
  /\ UNCHANGED outsideSetupNode

\* lines 156-163: an install command; its failure ends the call
RunInstall ==
  /\ ~actionResult.returned
  /\ Len(containerCmds) \in {2, 3}
  /\ \E ok \in BOOLEAN :
       /\ containerCmds' =
            Ran(InstallCommands(NodeVersion(actionCtx.Inputs))[Len(containerCmds) - 1], ok)
       /\ actionResult' =
            IF ok THEN actionResult
            ELSE [actionResult EXCEPT !.returned = TRUE, !.Success = FALSE,
                                      !.err = [kind |-> "install_failed"]]
  /\ UNCHANGED actionCtx
  /\ UNCHANGED outsideSetupNode

\* lines 166-174: "node --version"; its failure ends the call
VerifyNode ==
  /\ ~actionResult.returned
  /\ Len(containerCmds) = 4
  /\ \E ok \in BOOLEAN :
       /\ containerCmds' = Ran(NodeVersionCommand, ok)
       /\ actionResult' =
            IF ok THEN [actionResult EXCEPT !.Outputs = @ \cup {"node-version"}]
            ELSE [actionResult EXCEPT !.returned = TRUE, !.Success = FALSE,
                                      !.err = [kind |-> "verification_failed"]]
  /\ UNCHANGED actionCtx
  /\ UNCHANGED outsideSetupNode

\* lines 176-180: "npm --version"; the output is recorded "if err == nil"
VerifyNpm ==
  /\ ~actionResult.returned
  /\ Len(containerCmds) = 5
  /\ \E ok \in BOOLEAN :
       /\ containerCmds' = Ran(NpmVersionCommand, ok)
       /\ actionResult' =
            IF ok THEN [actionResult EXCEPT !.Outputs = @ \cup {"npm-version"}]
            ELSE actionResult
  /\ UNCHANGED actionCtx
  /\ UNCHANGED outsideSetupNode

\* lines 183-187: the cache directory, its error dropped, and "return result, nil"
SetupCache ==
  /\ ~actionResult.returned
  /\ Len(containerCmds) = 6
  /\ \E ok \in BOOLEAN : containerCmds' = Ran(CacheSetupCommand, ok)
  /\ actionResult' = [actionResult EXCEPT !.returned = TRUE]
  /\ UNCHANGED actionCtx
  /\ UNCHANGED outsideSetupNode

SetupNodeNext ==
  \/ RunPrerequisite
  \/ RunInstall
  \/ VerifyNode
  \/ VerifyNpm
  \/ SetupCache

SetupNodeSpec == SetupNodeInit /\ [][SetupNodeNext]_vars

(***************************************************************************)
(* A JobRunner (docker.go, lines 232-436): NewJobRunner, then calls of     *)
(* Start, RunStep and Stop in any order, each docker command ending well   *)
(* or not.                                                                 *)
(***************************************************************************)
\* the runs-on values of the jobs
RunsOnValues ==
  {"ubuntu-latest", "ubuntu-22.04", "ubuntu-20.04", "ubuntu-18.04",
   "Ubuntu-Latest", "ubuntu:latest", "node:18", ""}

\* the ids "docker run" prints
ContainerIDs == {"c1", "c2"}

NotCalled == [op |-> "none"]

\* NewJobRunner, lines 232-242
JobRunnerInit ==
  /\ runsOn \in RunsOnValues
  /\ jrImage = mapRunnerToImage(runsOn)
  /\ jrState = NewJobRunner
  /\ dockerCmds = <<>>
  /\ jrCall = NotCalled
  /\ EngineIdle
  /\ EnvIdle
  /\ ExprIdle
  /\ ResolverIdle
  /\ RunStepIdle
  /\ SetupNodeIdle
  /\ LoggerIdle
  /\ LoopIdle

\* the commands issued after a call that issued one or none
Issued(issued, command) == IF issued THEN Append(dockerCmds, command) ELSE dockerCmds

\* a call of Start, lines 269-295
CallStart ==
  /\ Len(dockerCmds) < MaxDockerCmds
  /\ \E dockerOk \in BOOLEAN, newID \in ContainerIDs :
       LET r == Start(jrState, dockerOk, newID)
       IN /\ jrState' = r.jr
          /\ dockerCmds' = Issued(r.issued, [cmd |-> "run", image |-> jrImage,
                                             ok |-> r.err = NoError])
          /\ jrCall' = [op |-> "Start", before |-> jrState, err |-> r.err]
  /\ UNCHANGED <<runsOn, jrImage>>
  /\ UNCHANGED outsideJobRunner

\* a call of RunStep, lines 298-369
CallRunStep ==
  /\ Len(dockerCmds) < MaxDockerCmds
  /\ \E exec \in DockerExecs :
       LET r == RunStep(jrState, exec)
       IN /\ dockerCmds' = Issued(r.issued, [cmd |-> "exec", image |-> jrImage,
                                             ok |-> exec.started])
          /\ jrCall' = [op |-> "RunStep", before |-> jrState, err |-> r.err,
                        exec |-> exec, result |-> r]
  /\ UNCHANGED <<runsOn, jrImage, jrState>>
  /\ UNCHANGED outsideJobRunner

\* a call of Stop, lines 423-436
CallStop ==
  /\ Len(dockerCmds) < MaxDockerCmds
  /\ \E dockerOk \in BOOLEAN :
       LET r == Stop(jrState, dockerOk)
       IN /\ jrState' = r.jr
          /\ dockerCmds' = Issued(r.issued, [cmd |-> "stop", image |-> jrImage,
                                             ok |-> r.err = NoError])
          /\ jrCall' = [op |-> "Stop", before |-> jrState, err |-> r.err]
  /\ UNCHANGED <<runsOn, jrImage>>
  /\ UNCHANGED outsideJobRunner

JobRunnerNext ==
  \/ CallStart
  \/ CallRunStep
  \/ CallStop

JobRunnerSpec == JobRunnerInit /\ [][JobRunnerNext]_vars

(***************************************************************************)
(* logging: the text written to the log files (logger.go, lines 36-214).   *)
(* A file is the sequence of the symbols written to it; NewLine is the     *)
(* line feed and Timestamp stands for the time of the write in the layout  *)
(* of writeWorkflowLog and writeJobLog.                                    *)
(***************************************************************************)
NewLine == "LF"
Timestamp == "2006-01-02T15:04:05.0000000Z"

\* logWorkflowHeader, lines 180-191: the raw string written at creation
logWorkflowHeader(workflowName) ==
  <<NewLine,
    "==============================================", NewLine,
    "GoGH - GitHub Actions Local Runner", NewLine,
    "==============================================", NewLine,
    "Workflow: ", workflowName, NewLine,
    "Started:  ", "2006-01-02 15:04:05 MST", NewLine,
    "==============================================", NewLine>>

\* writeWorkflowLog, lines 193-200, and writeJobLog, lines 202-214: one
\* WriteString of "timestamp message\n"
WriteLog(file, message) == file \o <<Timestamp, " ">> \o message \o <<NewLine>>

\* LogWorkflowStart, lines 97-101: the messages, one writeWorkflowLog each
LogWorkflowStart(workflowName) ==
  <<<<"##[group]Starting workflow execution">>,
    <<"Workflow: ", workflowName>>,
    <<"##[endgroup]">>>>

\* LogStepStart, lines 142-148: the messages, one writeJobLog each
LogStepStart(stepName, command) ==
  <<<<"##[group]Run ", stepName>>>>
    \o (IF command # <<>> THEN <<command>> ELSE <<>>)
    \o <<<<"##[endgroup]">>>>

\* LogStepOutput, lines 151-153
LogStepOutput(file, text) == WriteLog(file, text)

WorkflowNames == {"ci", "build"}

\* the run: values of the steps: none, one line, two lines
StepCommands == {<<>>, <<"make">>, <<"echo a", NewLine, "echo b">>}

\* what LogStepOutput is given: a line a reader scanned, and the combined
\* output of a command of an action
OutputTexts ==
  {<<"ok">>, <<"Reading package lists...", NewLine, "Done", NewLine>>}

\* the engine's goroutine is in no Log call
NoLogCall == [file |-> "none", pending |-> <<>>]

\* NewWorkflowLogger, lines 37-61
LoggerInit ==
  /\ \E workflowName \in WorkflowNames : workflowFile = logWorkflowHeader(workflowName)
  /\ jobFile = <<>>
  /\ logCalls = 0
  /\ wlJobLoggers = {}
  /\ wlClose = "open"
  /\ logCall = NoLogCall
  /\ EngineIdle
  /\ EnvIdle
  /\ ExprIdle
  /\ ResolverIdle
  /\ RunStepIdle
  /\ SetupNodeIdle
  /\ JobRunnerIdle
  /\ LoopIdle

\* the engine's goroutine may enter a Log function of the workflow logger,
\* or of the job logger of job "a"
MayEnterLogCall(file) ==
  /\ wlClose = "open"
  /\ logCall = NoLogCall
  /\ file = "job" => "a" \in wlJobLoggers
  /\ logCalls < MaxLogCalls

\* executeJob, line 129: GetJobLogger of a job that has no logger yet
CallGetJobLogger ==
  /\ wlClose = "open"
  /\ logCall = NoLogCall
  /\ "a" \notin wlJobLoggers
  /\ \E createOk \in BOOLEAN :
       wlJobLoggers' = GetJobLogger(wlJobLoggers, "a", createOk).loggers
  /\ UNCHANGED <<workflowFile, jobFile, logCalls, wlClose, logCall>>
  /\ UNCHANGED outsideLogger

\* LogWorkflowStart, lines 97-101
CallLogWorkflowStart ==
  \E workflowName \in WorkflowNames :
    /\ MayEnterLogCall("workflow")
    /\ logCall' = [file |-> "workflow",
                    pending |-> LogWorkflowStart(workflowName)]
    /\ logCalls' = logCalls + 1
    /\ UNCHANGED <<workflowFile, jobFile, wlJobLoggers, wlClose>>
    /\ UNCHANGED outsideLogger

\* LogWorkflowComplete, lines 104-108
CallLogWorkflowComplete ==
  /\ MayEnterLogCall("workflow")
  /\ logCall' = [file |-> "workflow",
                 pending |->
                    <<<<"##[group]Workflow completed successfully">>,
                      <<"Total duration: ", "1s">>,
                      <<"##[endgroup]">>>>]
  /\ logCalls' = logCalls + 1
  /\ UNCHANGED <<workflowFile, jobFile, wlJobLoggers, wlClose>>
  /\ UNCHANGED outsideLogger

\* LogWorkflowError, lines 111-114
CallLogWorkflowError ==
  /\ MayEnterLogCall("workflow")
  /\ logCall' = [file |-> "workflow",
                 pending |->
                    <<<<"##[error]Workflow failed">>,
                      <<"Error: ", "job a failed: step Step 1 failed">>>>]
  /\ logCalls' = logCalls + 1
  /\ UNCHANGED <<workflowFile, jobFile, wlJobLoggers, wlClose>>
  /\ UNCHANGED outsideLogger

\* LogExecutionPlan, lines 117-121
CallLogExecutionPlan ==
  \E executionPlan \in {"[a]", "[a b]"} :
    /\ MayEnterLogCall("workflow")
    /\ logCall' = [file |-> "workflow",
                    pending |->
                      <<<<"##[group]Execution Plan">>,
                        <<"Job execution order: ", executionPlan>>,
                        <<"##[endgroup]">>>>]
    /\ logCalls' = logCalls + 1
    /\ UNCHANGED <<workflowFile, jobFile, wlJobLoggers, wlClose>>
    /\ UNCHANGED outsideLogger

\* LogJobStart, lines 126-131
CallLogJobStart ==
  /\ MayEnterLogCall("job")
  /\ logCall' = [file |-> "job",
                  pending |->
                    <<<<"##[group]Job Setup">>,
                      <<"Job ID: ", "a">>,
                      <<"Runner: ", "ubuntu-latest">>,
                      <<"##[endgroup]">>>>]
  /\ logCalls' = logCalls + 1
  /\ UNCHANGED <<workflowFile, jobFile, wlJobLoggers, wlClose>>
  /\ UNCHANGED outsideLogger

\* LogContainerStart, lines 134-139
CallLogContainerStart ==
  /\ MayEnterLogCall("job")
  /\ logCall' = [file |-> "job",
                  pending |->
                    <<<<"##[group]Container Setup">>,
                      <<"Docker image: ", "ubuntu:22.04">>,
                      <<"Container ID: ", "c1">>,
                      <<"##[endgroup]">>>>]
  /\ logCalls' = logCalls + 1
  /\ UNCHANGED <<workflowFile, jobFile, wlJobLoggers, wlClose>>
  /\ UNCHANGED outsideLogger

\* LogStepStart, lines 142-148
CallLogStepStart ==
  \E stepName \in {"", "Step 2"}, command \in StepCommands :
    /\ MayEnterLogCall("job")
    /\ logCall' = [file |-> "job",
                    pending |-> LogStepStart(stepName, command)]
    /\ logCalls' = logCalls + 1
    /\ UNCHANGED <<workflowFile, jobFile, wlJobLoggers, wlClose>>
    /\ UNCHANGED outsideLogger

\* LogStepComplete, lines 156-162
CallLogStepComplete ==
  \E exitCode \in {0, 1, 2} :
    /\ MayEnterLogCall("job")
    /\ logCall' = [file |-> "job",
                    pending |->
                      IF exitCode = 0
                      THEN <<<<"##[section]Step '", "Step 1", "' completed successfully in ", "1s">>>>
                      ELSE <<<<"##[error]Step '", "Step 1", "' failed in ", "1s",
                               " (exit code: ", <<"1", "2">>[exitCode], ")">>>>]
    /\ logCalls' = logCalls + 1
    /\ UNCHANGED <<workflowFile, jobFile, wlJobLoggers, wlClose>>
    /\ UNCHANGED outsideLogger

\* LogJobComplete, lines 165-170
CallLogJobComplete ==
  /\ MayEnterLogCall("job")
  /\ logCall' = [file |-> "job",
                  pending |->
                    <<<<"##[group]Job Summary">>,
                      <<"Job '", "a", "' completed successfully">>,
                      <<"Duration: ", "1s">>,
                      <<"##[endgroup]">>>>]
  /\ logCalls' = logCalls + 1
  /\ UNCHANGED <<workflowFile, jobFile, wlJobLoggers, wlClose>>
  /\ UNCHANGED outsideLogger

\* LogJobError, lines 173-176
CallLogJobError ==
  /\ MayEnterLogCall("job")
  /\ logCall' = [file |-> "job",
                  pending |->
                    <<<<"##[error]Job '", "a", "' failed">>,
                      <<"Error: ", "failed to start container">>>>]
  /\ logCalls' = logCalls + 1
  /\ UNCHANGED <<workflowFile, jobFile, wlJobLoggers, wlClose>>
  /\ UNCHANGED outsideLogger

\* the next writeWorkflowLog (lines 193-200) or writeJobLog (lines 202-214)
\* of the Log call the engine's goroutine is in; writeJobLog holds jl.mu
\* for the one write only
WriteNextMessage ==
  /\ wlClose = "open"
  /\ logCall # NoLogCall
  /\ IF logCall.file = "workflow"
     THEN /\ workflowFile' = WriteLog(workflowFile, Head(logCall.pending))
          /\ UNCHANGED jobFile
     ELSE /\ jobFile' = WriteLog(jobFile, Head(logCall.pending))
          /\ UNCHANGED workflowFile
  /\ logCall' = IF Tail(logCall.pending) = <<>> THEN NoLogCall
                ELSE [logCall EXCEPT !.pending = Tail(@)]
  /\ UNCHANGED <<logCalls, wlJobLoggers, wlClose>>
  /\ UNCHANGED outsideLogger

\* LogStepOutput called by a reader goroutine of RunStep (docker.go, line
\* 418) or by an action: one writeJobLog, at any moment, between two writes
\* of a Log call of the engine's goroutine included
CallLogStepOutput ==
  /\ wlClose = "open"
  /\ "a" \in wlJobLoggers
  /\ logCalls < MaxLogCalls
  /\ logCalls' = logCalls + 1
  /\ \E text \in OutputTexts : jobFile' = LogStepOutput(jobFile, text)
  /\ UNCHANGED <<workflowFile, wlJobLoggers, wlClose, logCall>>
  /\ UNCHANGED outsideLogger

\* WorkflowLogger.Close, lines 217-235: with a job logger it calls
\* JobLogger.Close, which never returns and keeps wl.mu and jl.mu; with none
\* it writes its last line and closes the file
CallClose ==
  /\ wlClose = "open"
  /\ logCall = NoLogCall
  /\ IF CloseReturns(wlJobLoggers)
     THEN /\ workflowFile' =
               WriteLog(workflowFile, <<"=== Workflow logging completed ===">>)
          /\ wlClose' = "closed"
     ELSE /\ wlClose' = "blocked"
          /\ UNCHANGED workflowFile
  /\ UNCHANGED <<jobFile, logCalls, wlJobLoggers, logCall>>
  /\ UNCHANGED outsideLogger

LoggerNext ==
  \/ CallGetJobLogger
  \/ CallLogWorkflowStart
  \/ CallLogWorkflowComplete
  \/ CallLogWorkflowError
  \/ CallLogExecutionPlan
  \/ CallLogJobStart
  \/ CallLogContainerStart
  \/ CallLogStepStart
  \/ CallLogStepComplete
  \/ CallLogJobComplete
  \/ CallLogJobError
  \/ WriteNextMessage
  \/ CallLogStepOutput
  \/ CallClose

LoggerSpec == LoggerInit /\ [][LoggerNext]_vars

(***************************************************************************)
(* One call of JobRunner.RunStep (docker.go, lines 298-369) on a running   *)
(* container, from cmd.Start on: the process writes to its two streams and *)
(* exits, the two streamOutputToLogger goroutines (lines 412-420) scan the *)
(* pipes for lines and hand each line to the job logger, whose writeJobLog *)
(* (logger.go, lines 202-214) writes it to the job file under jl.mu, and   *)
(* RunStep waits in cmd.Wait, which returns once the process has exited    *)
(* and closes the read ends of both pipes.                                 *)
(*                                                                         *)
(* The process writes a line with one write or with two: a first part      *)
(* without the line feed, then the rest, unless it exits in between.  A    *)
(* pipe and a scanner's buffer hold these pieces in order; a piece is      *)
(* [line, part] with part "whole", "head" or "tail".                       *)
(***************************************************************************)
Streams == {"stdout", "stderr"}

\* scanner.Text, line 417: the text of what the scanner handed out, line n
\* of a stream, or its first part only when the scanner saw no more of it
TokenText(s, n, cut) ==
  <<s>> \o [i \in 1..n |-> "|"] \o (IF cut THEN <<>> ELSE <<".">>)

\* lines 335-342: cmd.Start and the two "go jr.streamOutputToLogger"
RunStepInit ==
  /\ cmd = "running"
  /\ written = [s \in Streams |-> 0]
  /\ midLine = [s \in Streams |-> FALSE]
  /\ pipes = [s \in Streams |-> [lines |-> <<>>, closed |-> FALSE]]
  /\ readers = [s \in Streams |-> [at |-> "scan", line |-> 0, cut |-> FALSE,
                                    buf |-> <<>>, pending |-> <<>>]]
  /\ jlMu = "free"
  /\ jobLogFile = <<>>
  /\ jobLog = <<>>
  /\ runStep = "waiting"
  /\ EngineIdle
  /\ EnvIdle
  /\ ExprIdle
  /\ ResolverIdle
  /\ SetupNodeIdle
  /\ JobRunnerIdle
  /\ LoggerIdle
  /\ LoopIdle

\* the process writes a whole line to one of its streams
WriteLine ==
  /\ cmd = "running"
  /\ \E s \in Streams :
       /\ written[s] < MaxLines
       /\ ~midLine[s]
       /\ written' = [written EXCEPT ![s] = @ + 1]
       /\ pipes' = [pipes EXCEPT ![s].lines =
                      Append(@, [line |-> written[s] + 1, part |-> "whole"])]
  /\ UNCHANGED <<cmd, midLine, readers, jlMu, jobLogFile, jobLog, runStep>>
  /\ UNCHANGED outsideRunStep

\* the process writes a line to one of its streams with two writes: the
\* first part, and later the rest with the line feed
WritePart ==
  /\ cmd = "running"
  /\ \E s \in Streams :
       \/ /\ written[s] < MaxLines
          /\ ~midLine[s]
          /\ midLine' = [midLine EXCEPT ![s] = TRUE]
          /\ pipes' = [pipes EXCEPT ![s].lines =
                         Append(@, [line |-> written[s] + 1, part |-> "head"])]
          /\ UNCHANGED written
       \/ /\ midLine[s]
          /\ midLine' = [midLine EXCEPT ![s] = FALSE]
          /\ written' = [written EXCEPT ![s] = @ + 1]
          /\ pipes' = [pipes EXCEPT ![s].lines =
                         Append(@, [line |-> written[s] + 1, part |-> "tail"])]
  /\ UNCHANGED <<cmd, readers, jlMu, jobLogFile, jobLog, runStep>>
  /\ UNCHANGED outsideRunStep

\* the process exits, also with a last line it did not end with a line feed
ProcessExit ==
  /\ cmd = "running"
  /\ cmd' = "exited"
  /\ UNCHANGED <<written, midLine, pipes, readers, jlMu, jobLogFile, jobLog, runStep>>
  /\ UNCHANGED outsideRunStep

\* the scanner's buffer holds a line up to its line feed
HasLine(buf) ==
  /\ buf # <<>>
  /\ \/ Head(buf).part = "whole"
     \/ Len(buf) >= 2

\* scanner.Scan, line 416, on a buffer that is not empty (bufio.ScanLines):
\* the oldest line of the buffer, which leaves the buffer; when the buffer
\* holds the first part of a line only and the Read has failed or found the
\* end of the stream, what is left is handed out as the last line
Scan(buf) ==
  IF ~HasLine(buf)
  THEN [line |-> Head(buf).line, cut |-> TRUE, rest |-> <<>>]
  ELSE IF Head(buf).part = "whole"
       THEN [line |-> Head(buf).line, cut |-> FALSE, rest |-> Tail(buf)]
       ELSE [line |-> Head(buf).line, cut |-> FALSE, rest |-> Tail(Tail(buf))]

\* streamOutputToLogger, line 416: scanner.Scan returns true with a line.
\* bufio.Scanner hands out a line of its buffer without reading; when the
\* buffer holds none it reads, and one Read of a pipe that is open takes
\* everything the pipe holds; when the Read fails (the pipe was closed
\* under it) or finds the end of the stream, the first part of a line that
\* the buffer holds is handed out as a line
ScanLine ==
  /\ \E s \in Streams :
       /\ readers[s].at = "scan"
       /\ \/ /\ HasLine(readers[s].buf)
             /\ readers' = [readers EXCEPT ![s] = [at |-> "log",
                                                    line |-> Scan(readers[s].buf).line,
                                                    cut |-> Scan(readers[s].buf).cut,
                                                    buf |-> Scan(readers[s].buf).rest,
                                                    pending |-> <<>>]]
             /\ UNCHANGED pipes
          \/ /\ ~HasLine(readers[s].buf)
             /\ ~pipes[s].closed
             /\ pipes[s].lines # <<>>
             /\ HasLine(readers[s].buf \o pipes[s].lines)
             /\ LET t == Scan(readers[s].buf \o pipes[s].lines)
                IN readers' = [readers EXCEPT ![s] = [at |-> "log", line |-> t.line,
                                                       cut |-> t.cut, buf |-> t.rest,
                                                       pending |-> <<>>]]
             /\ pipes' = [pipes EXCEPT ![s].lines = <<>>]
          \/ /\ ~HasLine(readers[s].buf)
             /\ readers[s].buf # <<>>
             /\ \/ pipes[s].closed
                \/ pipes[s].lines = <<>> /\ cmd = "exited"
             /\ LET t == Scan(readers[s].buf)
                IN readers' = [readers EXCEPT ![s] = [at |-> "log", line |-> t.line,
                                                       cut |-> t.cut, buf |-> t.rest,
                                                       pending |-> <<>>]]
             /\ UNCHANGED pipes
  /\ UNCHANGED <<cmd, written, midLine, jlMu, jobLogFile, jobLog, runStep>>
  /\ UNCHANGED outsideRunStep

\* streamOutputToLogger, line 416: inside scanner.Scan, a Read of the open
\* pipe takes the first part of a line; the buffer holds no line feed yet
\* and Scan goes on to read
ScanReads ==
  /\ \E s \in Streams :
       /\ readers[s].at = "scan"
       /\ ~HasLine(readers[s].buf)
       /\ ~pipes[s].closed
       /\ pipes[s].lines # <<>>
       /\ ~HasLine(readers[s].buf \o pipes[s].lines)
       /\ readers' = [readers EXCEPT ![s].buf = @ \o pipes[s].lines]
       /\ pipes' = [pipes EXCEPT ![s].lines = <<>>]
  /\ UNCHANGED <<cmd, written, midLine, jlMu, jobLogFile, jobLog, runStep>>
  /\ UNCHANGED outsideRunStep

\* a writeJobLog that takes no lock and writes the timestamp and the
\* message with a WriteString each
writeJobLogInParts(message) ==
  [locks |-> FALSE,
   writes |-> <<<<Timestamp, " ">>, message \o <<NewLine>>>>]

\* writeJobLog, lines 202-214: under jl.mu, held until the function
\* returns, one WriteString of "timestamp message\n"
writeJobLog(message) ==
  [locks |-> TRUE,
   writes |-> <<WriteLog(<<>>, message)>>]

\* streamOutputToLogger, line 418: jobLogger.LogStepOutput(line), which
\* calls writeJobLog; writeJobLog, lines 203-207: jl.mu.Lock, which waits
\* while the other reader holds the mutex, and the line is formatted
LogLine ==
  /\ \E s \in Streams :
       LET w == writeJobLog(TokenText(s, readers[s].line, readers[s].cut))
       IN /\ readers[s].at = "log"
          /\ w.locks => jlMu = "free"
          /\ jlMu' = IF w.locks THEN s ELSE jlMu
          /\ readers' = [readers EXCEPT ![s].at = "write", ![s].pending = w.writes]
  /\ UNCHANGED <<cmd, written, midLine, pipes, jobLogFile, jobLog, runStep>>
  /\ UNCHANGED outsideRunStep

\* writeJobLog, lines 209-213: a WriteString to the job file (os.File
\* serialises the writes of one file, each lands whole); after the last
\* one the deferred jl.mu.Unlock runs and the reader scans again
WriteLogLine ==
  /\ \E s \in Streams :
       /\ readers[s].at = "write"
       /\ jobLogFile' = jobLogFile \o Head(readers[s].pending)
       /\ IF Len(readers[s].pending) = 1
          THEN /\ jobLog' = Append(jobLog, [stream |-> s, line |-> readers[s].line,
                                            cut |-> readers[s].cut,
                                            afterReturn |-> runStep = "returned"])
               /\ jlMu' = IF jlMu = s THEN "free" ELSE jlMu
               /\ readers' = [readers EXCEPT ![s] = [at |-> "scan", line |-> 0,
                                                      cut |-> FALSE,
                                                      buf |-> readers[s].buf,
                                                      pending |-> <<>>]]
          ELSE /\ readers' = [readers EXCEPT ![s].pending = Tail(@)]
               /\ UNCHANGED <<jobLog, jlMu>>
  /\ UNCHANGED <<cmd, written, midLine, pipes, runStep>>
  /\ UNCHANGED outsideRunStep

\* streamOutputToLogger, line 416: scanner.Scan returns false: its buffer
\* is empty and its Read finds the end of the stream or a pipe that was
\* closed under it
ScanEnds ==
  /\ \E s \in Streams :
       /\ readers[s].at = "scan"
       /\ readers[s].buf = <<>>
       /\ \/ pipes[s].closed
          \/ pipes[s].lines = <<>> /\ cmd = "exited"
       /\ readers' = [readers EXCEPT ![s] = [at |-> "done", line |-> 0, cut |-> FALSE,
                                              buf |-> <<>>, pending |-> <<>>]]
  /\ UNCHANGED <<cmd, written, midLine, pipes, jlMu, jobLogFile, jobLog, runStep>>
  /\ UNCHANGED outsideRunStep

\* lines 345-368: cmd.Wait returns and RunStep returns its result
RunStepReturns ==
  /\ runStep = "waiting"
  /\ cmd = "exited"
  /\ pipes' = [s \in Streams |-> [pipes[s] EXCEPT !.closed = TRUE]]
  /\ runStep' = "returned"
  /\ UNCHANGED <<cmd, written, midLine, readers, jlMu, jobLogFile, jobLog>>
  /\ UNCHANGED outsideRunStep

RunStepNext ==
  \/ WriteLine
  \/ WritePart
  \/ ProcessExit
  \/ ScanLine
  \/ ScanReads
  \/ LogLine
  \/ WriteLogLine
  \/ ScanEnds
  \/ RunStepReturns

RunStepSpec == RunStepInit /\ [][RunStepNext]_vars

(***************************************************************************)
(* One call of the engine's replaceExpressions (engine.go, lines 363-392), *)
(* turn by turn of its for loop, with an environment whose values may hold *)
(* expressions themselves.                                                 *)
(***************************************************************************)
\* one turn of the loop, lines 368-389: the loop is left, or result is
\* replaced and the loop goes on
replaceExpressionsTurn(context, input) ==
  LET start == Index(input, <<"$", "{", "{">>)
      rest == SubSeq(input, start, Len(input))
      close == Index(rest, <<"}", "}">>)
      end == start + close
      evaluated == Evaluate(context, SubSeq(input, start, end))
  IN IF start = 0 \/ close = 0 THEN [break |-> TRUE, result |-> input]
     ELSE IF evaluated.err # NoError THEN [break |-> TRUE, result |-> input]
     ELSE [break |-> FALSE,
           result |-> SubSeq(input, 1, start - 1) \o evaluated.value
                        \o SubSeq(input, end + 1, Len(input))]

\* the environments of the step: no variable, a plain value, a value that is
\* an expression of the github context, a value that names its own variable,
\* and two variables whose values name each other
LoopEnvs ==
  {EmptyEnv,
   [k \in {<<"FOO">>} |-> <<"bar">>],
   [k \in {<<"FOO">>} |-> Token("github", "sha")],
   [k \in {<<"FOO">>} |-> Token("env", "FOO")],
   [k \in {<<"FOO">>, <<"BAR">>} |->
      IF k = <<"FOO">> THEN Token("env", "BAR") ELSE Token("env", "FOO")]}

\* expandInputVariables, lines 330-360: the call of replaceExpressions
LoopInit ==
  /\ \E environment \in LoopEnvs : loopEvaluator = EvaluationContext(environment)
  /\ loopResult \in PieceStrings
  /\ loopPc = "loop"
  /\ turns = {}
  /\ EngineIdle
  /\ EnvIdle
  /\ ExprIdle
  /\ ResolverIdle
  /\ RunStepIdle
  /\ SetupNodeIdle
  /\ JobRunnerIdle
  /\ LoggerIdle

\* lines 368-388: a turn that replaces an expression by its value; a turn
\* that finds result as it was at an earlier turn is not followed further
ReplaceTurn ==
  /\ loopPc = "loop"
  /\ loopResult \notin turns
  /\ LET turn == replaceExpressionsTurn(loopEvaluator, loopResult)
     IN /\ ~turn.break
        /\ loopResult' = turn.result
  /\ turns' = turns \cup {loopResult}
  /\ UNCHANGED <<loopEvaluator, loopPc>>
  /\ UNCHANGED outsideLoop

\* lines 369-385 and 391: the loop is left and result returned
ReplaceReturn ==
  /\ loopPc = "loop"
  /\ replaceExpressionsTurn(loopEvaluator, loopResult).break
  /\ loopPc' = "returned"
  /\ UNCHANGED <<loopEvaluator, loopResult, turns>>
  /\ UNCHANGED outsideLoop

LoopNext ==
  \/ ReplaceTurn
  \/ ReplaceReturn

LoopSpec == LoopInit /\ [][LoopNext]_vars

(***************************************************************************)
(* Vocabulary of the properties.                                           *)
(***************************************************************************)
JobsOf(w) == DOMAIN w.Jobs
DepsOf(w, j) == Range(w.Jobs[j].Needs)

AllDepsExist(w) == \A j \in JobsOf(w) : DepsOf(w, j) \subseteq JobsOf(w)

\* the declared jobs reached from the jobs in frontier along needs entries
RECURSIVE NeedsClosure(_, _, _)
NeedsClosure(w, frontier, seen) ==
  LET next == UNION {DepsOf(w, j) : j \in frontier \cap JobsOf(w)}
  IN IF next \subseteq seen THEN seen
     ELSE NeedsClosure(w, next \ seen, seen \cup next)

Reaches(w, j) == NeedsClosure(w, {j}, {})

HasCycle(w) == \E j \in JobsOf(w) : j \in Reaches(w, j)

NeedsFormDAG(w) == AllDepsExist(w) /\ ~HasCycle(w)

ListsDependencyTwice(w) ==
  \E j \in JobsOf(w) : Len(w.Jobs[j].Needs) > Cardinality(DepsOf(w, j))

Position(order, j) == CHOOSE i \in DOMAIN order : order[i] = j

Planned == pc # "start"
PlanFailed == retVal.kind = "plan_failed"

JobStatus(ws, j) == IF j \in DOMAIN ws.Jobs THEN ws.Jobs[j].Status ELSE "none"

NoJobEntered ==
  /\ \A j \in JobIds : JobStatus(workflowState, j) \in {"none", StatusPending}
  /\ jobIdx = 0

NoSandboxStarted ==
  /\ \A j \in JobIds : startCalls[j] = 0
  /\ live = {}

RunEnded == pc \in {"returned", "blocked"}
ReturnedError == pc = "returned" /\ retVal \notin {NoError, NotReturned}
ReturnedNil == pc = "returned" /\ retVal = NoError

(***************************************************************************)
(* C1: for a workflow whose needs entries form a DAG (a dependency listed  *)
(* twice included), BuildExecutionPlan returns no error and an order that  *)
(* holds every job exactly once, each job after every job it needs.        *)
(***************************************************************************)
C1_PlanOrdersEveryDAG ==
  (Planned /\ NeedsFormDAG(workflowDef)) =>
     /\ ~PlanFailed
     /\ Len(executionOrder) = Cardinality(JobsOf(workflowDef))
     /\ Range(executionOrder) = JobsOf(workflowDef)
     /\ \A j \in JobsOf(workflowDef) : \A d \in DepsOf(workflowDef, j) :
          Position(executionOrder, d) < Position(executionOrder, j)

\* a planned three-job DAG in which a job names one dependency twice
C1_Witness ==
  /\ Planned
  /\ NeedsFormDAG(workflowDef)
  /\ ListsDependencyTwice(workflowDef)
  /\ Len(executionOrder) = Cardinality(JobIds)

(***************************************************************************)
(* C5, as stated: whenever the needs entries contain a cycle (a job that   *)
(* needs itself included), the plan fails with the circular-dependency     *)
(* error, no job is entered and no sandbox is started.                     *)
(***************************************************************************)
C5_CycleAlwaysCircularError ==
  (Planned /\ HasCycle(workflowDef)) =>
     /\ PlanFailed /\ retVal.cause.kind = "circular"
     /\ NoJobEntered /\ NoSandboxStarted

(***************************************************************************)
(* C5, amended: when the needs entries contain a cycle and every needs     *)
(* entry names a declared job, the plan fails with the circular-dependency *)
(* error, Execute ends by returning an error, no job is entered and no     *)
(* sandbox is started.                                                     *)
(***************************************************************************)
C5_CycleAmongDeclaredJobs ==
  (Planned /\ HasCycle(workflowDef) /\ AllDepsExist(workflowDef)) =>
     /\ PlanFailed /\ retVal.cause.kind = "circular"
     /\ NoJobEntered /\ NoSandboxStarted
     /\ workflowState.Jobs = <<>>
     /\ pc \in {"close", "returned"}

\* Execute has returned the error for a job that needs itself
C5_Witness ==
  /\ \E j \in JobsOf(workflowDef) : j \in DepsOf(workflowDef, j)
  /\ AllDepsExist(workflowDef)
  /\ ReturnedError
  /\ retVal.cause.kind = "circular"

(***************************************************************************)
(* C6: when a needs entry names a job the workflow does not declare, the   *)
(* plan fails with the non-existent-dependency error for such an entry,    *)
(* also when the needs entries contain a cycle; Execute ends by returning  *)
(* an error, no job is entered and no sandbox is started.                  *)
(***************************************************************************)
C6_MissingDependencyError ==
  (Planned /\ ~AllDepsExist(workflowDef)) =>
     /\ PlanFailed /\ retVal.cause.kind = "nonexistent"
     /\ retVal.cause.job \in JobsOf(workflowDef)
     /\ retVal.cause.dependency \in
          DepsOf(workflowDef, retVal.cause.job) \ JobsOf(workflowDef)
     /\ NoJobEntered /\ NoSandboxStarted
     /\ pc \in {"close", "returned"}

\* Execute has returned the error for a workflow that has both an undeclared
\* dependency and a cycle
C6_Witness ==
  /\ ~AllDepsExist(workflowDef)
  /\ HasCycle(workflowDef)
  /\ ReturnedError
  /\ retVal.cause.kind = "nonexistent"

(***************************************************************************)
(* C7: a job becomes Running only in a state in which every job in its     *)
(* needs list has status Success.                                          *)
(***************************************************************************)
C7_RunningOnlyAfterNeeds ==
  [][\A j \in JobsOf(workflowDef) :
       (JobStatus(workflowState', j) = StatusRunning
          /\ JobStatus(workflowState, j) # StatusRunning)
       => \A d \in DepsOf(workflowDef, j) :
            JobStatus(workflowState, d) = StatusSuccess]_vars

\* a job that needs two other jobs is running
C7_Witness ==
  \E j \in JobsOf(workflowDef) :
     /\ JobStatus(workflowState, j) = StatusRunning
     /\ Cardinality(DepsOf(workflowDef, j)) = 2

(***************************************************************************)
(* C10: at most one job is Running in any state, and a job has left        *)
(* Pending only if every job before it in the plan is Success.             *)
(***************************************************************************)
C10_OneJobAtATimeInPlanOrder ==
  /\ Cardinality({j \in JobIds : JobStatus(workflowState, j) = StatusRunning}) <= 1
  /\ \A k \in DOMAIN executionOrder :
       JobStatus(workflowState, executionOrder[k]) # StatusPending
       => \A i \in 1..(k - 1) :
            JobStatus(workflowState, executionOrder[i]) = StatusSuccess

\* the third job of a plan is running
C10_Witness ==
  /\ Len(executionOrder) = Cardinality(JobIds)
  /\ jobIdx = Len(executionOrder)
  /\ JobStatus(workflowState, CurrentJobID) = StatusRunning

(***************************************************************************)
(* C2: fail-fast.  Once a step of a job is in Failure the job is in        *)
(* Failure, the steps after the failed one and the jobs later in the plan  *)
(* stay Pending, no status changes any more, and Execute ends by returning *)
(* an error.                                                               *)
(***************************************************************************)
SomeStepFailed(ws) ==
  \E j \in DOMAIN ws.Jobs : \E n \in DOMAIN ws.Jobs[j].Steps :
     ws.Jobs[j].Steps[n].Status = StatusFailure

C2_StatusesAfterFailure ==
  SomeStepFailed(workflowState) =>
     /\ JobStatus(workflowState, CurrentJobID) = StatusFailure
     /\ \A n \in DOMAIN workflowState.Jobs[CurrentJobID].Steps :
          n > stepIdx =>
            workflowState.Jobs[CurrentJobID].Steps[n].Status = StatusPending
     /\ \A k \in DOMAIN executionOrder :
          k > jobIdx =>
            /\ JobStatus(workflowState, executionOrder[k]) = StatusPending
            /\ \A n \in DOMAIN workflowState.Jobs[executionOrder[k]].Steps :
                 workflowState.Jobs[executionOrder[k]].Steps[n].Status
                   = StatusPending

C2_NothingMovesAfterFailure ==
  SomeStepFailed(workflowState) =>
     /\ workflowState'.Jobs = workflowState.Jobs
     /\ jobIdx' = jobIdx /\ stepIdx' = stepIdx

C2_ReturnsErrorAfterFailure ==
  (SomeStepFailed(workflowState) /\ RunEnded) => ReturnedError

C2_FailFast ==
  /\ [](C2_StatusesAfterFailure /\ C2_ReturnsErrorAfterFailure)
  /\ [][C2_NothingMovesAfterFailure]_vars

(***************************************************************************)
(* C3: for every job the engine moved to Running, Stop has been invoked    *)
(* exactly once when executeJob has returned, whether all steps succeeded, *)
(* a step failed or the sandbox failed to start.  executeJob returns on a  *)
(* Start error before it registers the deferred Stop, so on that path Stop *)
(* has been invoked zero times.                                            *)
(***************************************************************************)
JobReturned(j) ==
  /\ j \in Range(executionOrder)
  /\ \/ Position(executionOrder, j) < jobIdx
     \/ /\ Position(executionOrder, j) = jobIdx
        /\ pc \in {"jobs", "close", "returned", "blocked"}

MovedToRunning(j) == JobStatus(workflowState, j) \in {StatusRunning, StatusSuccess, StatusFailure}

C3_StopOnceOnEveryExit ==
  \A j \in JobIds :
     (JobReturned(j) /\ MovedToRunning(j)) => stopCalls[j] = 1

(***************************************************************************)
(* C4: every job status and every step status changes only along           *)
(* Pending -> Running -> Success or Pending -> Running -> Failure, also    *)
(* when two steps of a job have the same display name.                     *)
(***************************************************************************)
AllowedChange(old, new) ==
  \/ old = new
  \/ old = StatusPending /\ new = StatusRunning
  \/ old = StatusRunning /\ new \in {StatusSuccess, StatusFailure}

C4_StatusLifecycle ==
  [][\A j \in DOMAIN workflowState.Jobs :
       /\ AllowedChange(workflowState.Jobs[j].Status, workflowState'.Jobs[j].Status)
       /\ \A n \in DOMAIN workflowState.Jobs[j].Steps :
            AllowedChange(workflowState.Jobs[j].Steps[n].Status,
                          workflowState'.Jobs[j].Steps[n].Status)]_vars

(***************************************************************************)
(* C8: when Execute has ended it has returned; it returned nil and set the *)
(* workflow status to Success exactly if every job reached Success, and    *)
(* returned an error otherwise.                                            *)
(***************************************************************************)
AllJobsSuccess ==
  \A j \in JobsOf(workflowDef) : JobStatus(workflowState, j) = StatusSuccess

C8_SuccessIffAllJobsSucceed ==
  RunEnded =>
     /\ pc = "returned"
     /\ (retVal = NoError) <=> AllJobsSuccess
     /\ (workflowState.Status = StatusSuccess) <=> AllJobsSuccess
     /\ ~AllJobsSuccess => ReturnedError

(***************************************************************************)
(* C9: within a job, step N+1 becomes Running only when step N is Success, *)
(* and at most one step of a job is Running in any state.                  *)
(***************************************************************************)
StepStatus(ws, j, n) == ws.Jobs[j].Steps[n].Status

C9_AtMostOneStepRunning ==
  \A j \in DOMAIN workflowState.Jobs :
     Cardinality({n \in DOMAIN workflowState.Jobs[j].Steps :
                    StepStatus(workflowState, j, n) = StatusRunning}) <= 1

C9_NextStepAfterPrevious ==
  \A j \in DOMAIN workflowState.Jobs :
     \A n \in DOMAIN workflowState.Jobs[j].Steps :
        (n > 1 /\ StepStatus(workflowState', j, n) = StatusRunning
               /\ StepStatus(workflowState, j, n) # StatusRunning)
        => StepStatus(workflowState, j, n - 1) = StatusSuccess

C9_StepsSequential ==
  /\ []C9_AtMostOneStepRunning
  /\ [][C9_NextStepAfterPrevious]_vars

(***************************************************************************)
(* C11: BuildStepEnvironment applies the layers built-in < workflow < job  *)
(* < step.  For every key whose values hold no reference, the mapping the  *)
(* call returned has the step-level value if the step defines the key,     *)
(* else the job-level value if the job defines it, else the workflow-level *)
(* value if the workflow defines it, else the derived value.               *)
(***************************************************************************)
HoldsReference(value) == "$" \in Range(value)

\* the value the layers give to key, highest layer first
LayeredValue(key, workflowEnv, jobEnv, stepEnv) ==
  IF key \in DOMAIN stepEnv THEN stepEnv[key]
  ELSE IF key \in DOMAIN jobEnv THEN jobEnv[key]
  ELSE IF key \in DOMAIN workflowEnv THEN workflowEnv[key]
  ELSE DerivedEnv[key]

DefinedKeys(workflowEnv, jobEnv, stepEnv) ==
  DOMAIN DerivedEnv \cup DOMAIN workflowEnv \cup DOMAIN jobEnv \cup DOMAIN stepEnv

ReferenceFree(key, workflowEnv, jobEnv, stepEnv) ==
  \A layer \in {workflowEnv, jobEnv, stepEnv} :
    key \in DOMAIN layer => ~HoldsReference(layer[key])

C11_LayerPrecedence ==
  lastBuild.called =>
    \A key \in DefinedKeys(em.workflowEnv, em.jobEnv, lastBuild.stepEnv) :
      ReferenceFree(key, em.workflowEnv, em.jobEnv, lastBuild.stepEnv) =>
        /\ key \in DOMAIN lastBuild.env
        /\ lastBuild.env[key] =
             LayeredValue(key, em.workflowEnv, em.jobEnv, lastBuild.stepEnv)

\* the three layers give X three different literal values
C11_Witness ==
  /\ lastBuild.called
  /\ <<"X">> \in DOMAIN em.workflowEnv \cap DOMAIN em.jobEnv \cap DOMAIN lastBuild.stepEnv
  /\ em.workflowEnv[<<"X">>] = <<"1">>
  /\ em.jobEnv[<<"X">>] = <<"2">>
  /\ lastBuild.stepEnv[<<"X">>] = <<"3">>
  /\ lastBuild.env[<<"X">>] = <<"3">>
  /\ lastBuild.env[<<"CI">>] = <<"true">>

(***************************************************************************)
(* C12: replaceExpressions replaces the expressions of a string left to    *)
(* right and stops at the first one whose evaluation fails: what it        *)
(* returns is the string with every expression before the first failing    *)
(* one replaced by its value, and the failing expression and all that      *)
(* follows it as they were.                                                *)
(***************************************************************************)
IsExpression(piece) == HasPrefix(piece, <<"$", "{", "{">>)

\* the pieces as the claim has them substituted, stopped telling whether an
\* earlier expression failed
RECURSIVE SubstitutedUntilFailure(_, _, _)
SubstitutedUntilFailure(context, pieces, stopped) ==
  IF pieces = <<>> THEN <<>>
  ELSE LET piece == Head(pieces)
           r == Evaluate(context, piece)
           fails == IsExpression(piece) /\ r.err # NoError
           text == IF IsExpression(piece) /\ ~stopped /\ ~fails THEN r.value ELSE piece
       IN text \o SubstitutedUntilFailure(context, Tail(pieces), stopped \/ fails)

C12_StopsAtFirstFailure ==
  exprCall.op = "replaceExpressions" =>
    \A pieces \in BSeq(Pieces, MaxPieces) :
      Concat(pieces) = exprArg =>
        exprCall.value = SubstitutedUntilFailure(evaluator, pieces, FALSE)

\* an expression was replaced, the next failed, and a valid one after it stayed
C12_Witness ==
  /\ exprCall.op = "replaceExpressions"
  /\ exprArg = Token("github", "sha") \o Token("bogus", "x") \o Token("github", "sha")
  /\ exprCall.value = GitHubContext.SHA \o Token("bogus", "x") \o Token("github", "sha")

(***************************************************************************)
(* C13: Evaluate on "${{ c.p }}" returns the github value for c = github   *)
(* and a property it knows, the runner value for c = runner and a property *)
(* it knows, and the value of key p of Env for c = env; it returns an      *)
(* error for an unknown context name, for an unknown property of github or *)
(* runner, for an env key that is absent and for an inner expression that  *)
(* is not one dotted pair.                                                 *)
(***************************************************************************)
GitHubProperties ==
  [repository |-> GitHubContext.Repository, sha |-> GitHubContext.SHA,
   ref |-> GitHubContext.Ref, event_name |-> GitHubContext.EventName,
   actor |-> GitHubContext.Actor]
RunnerProperties == [os |-> <<"Linux">>, arch |-> <<"X64">>]

Returned(value) == exprCall.value = value /\ exprCall.err = NoError
ReturnedAnError == exprCall.err # NoError

C13_EvaluateByContext ==
  exprCall.op = "Evaluate" =>
    /\ \A c \in ContextNames, p \in PropertyNames :
         exprArg \in {Token(c, p), TightToken(c, p)} =>
           CASE c = "github" ->
                  IF p \in DOMAIN GitHubProperties THEN Returned(GitHubProperties[p])
                  ELSE ReturnedAnError
             [] c = "runner" ->
                  IF p \in DOMAIN RunnerProperties THEN Returned(RunnerProperties[p])
                  ELSE ReturnedAnError
             [] c = "env" ->
                  IF <<p>> \in DOMAIN evaluator.Env THEN Returned(evaluator.Env[<<p>>])
                  ELSE ReturnedAnError
             [] c = "bogus" -> ReturnedAnError
             [] OTHER -> TRUE
    /\ \A c \in ContextNames, p \in PropertyNames :
         exprArg \in {OnePartToken(c), ThreePartToken(c, p)} => ReturnedAnError

\* github.sha gave the commit, or env.FOO gave the value of FOO
C13_Witness ==
  /\ exprCall.op = "Evaluate"
  /\ exprArg = Token("env", "FOO")
  /\ <<"FOO">> \in DOMAIN evaluator.Env
  /\ Returned(<<"bar">>)

(***************************************************************************)
(* C14: ResolveAction looks the reference up without its "@version": for   *)
(* every name and every version tag, name followed by the tag resolves to  *)
(* the executor registered for name (its inputs being valid), so that two  *)
(* references that differ only in version resolve to the same executor;    *)
(* when name is not registered the call returns no executor and an error   *)
(* that lists every registered action name.                                *)
(***************************************************************************)
C14_VersionStripped ==
  resolveRet.called =>
    \A name \in ActionNames, tag \in VersionTags :
      resolveArg.actionRef = name \o tag =>
        IF name \in DOMAIN ar
        THEN ValidateInputs(ar[name], resolveArg.inputs) = NoError =>
               resolveRet.executor = ar[name] /\ resolveRet.err = NoError
        ELSE /\ resolveRet.executor = "nil"
             /\ resolveRet.err # NoError
             /\ Range(resolveRet.err.available) = DOMAIN ar

\* a versioned reference to a registered action was resolved
C14_Witness ==
  /\ resolveRet.called
  /\ resolveArg.actionRef = <<"actions/checkout", "@", "v3">>
  /\ resolveRet.executor = "CheckoutAction"

(***************************************************************************)
(* C15: when the registered action of a step rejects the step's inputs,    *)
(* ResolveAction returns a validation error, the action's Execute is not   *)
(* called for the step, and the step, its job and the run end in Failure.  *)
(***************************************************************************)
InputsRejected(step) ==
  \E name \in DOMAIN BuiltinActions, tag \in VersionTags :
    /\ step.Uses = name \o tag
    /\ ValidateInputs(BuiltinActions[name], step.With) # NoError

\* the engine is past the step it last entered, a step of the current job
PastCurrentStep == jobIdx > 0 /\ stopDeferred /\ stepIdx >= 1 /\ pc # "step"

C15_ValidationErrorNoExecute ==
  (PastCurrentStep /\ InputsRejected(CurrentStep)) =>
    /\ jobErr.kind = "step_failed"
    /\ jobErr.cause.kind = "invalid inputs"
    /\ <<CurrentJobID, stepIdx>> \notin Range(executed)

C15_StepJobRunFailure ==
  (PastCurrentStep /\ InputsRejected(CurrentStep)) =>
    /\ StepStatus(workflowState, CurrentJobID, stepIdx) = StatusFailure
    /\ JobStatus(workflowState, CurrentJobID) = StatusFailure
    /\ pc \in {"close", "returned", "blocked"} =>
         workflowState.Status = StatusFailure

C15_RejectedInputsFailTheRun ==
  C15_ValidationErrorNoExecute /\ C15_StepJobRunFailure

(***************************************************************************)
(* C16: a failure of the sandbox driver, in Start or in Stop, sets the     *)
(* owning job to Failure and aborts the run: no later job starts and       *)
(* Execute returns an error.                                               *)
(***************************************************************************)
\* Start was called for j and left no container; Stop was called for j and
\* its container is still there
SandboxStartFailed(j) == startCalls[j] >= 1 /\ stopCalls[j] = 0 /\ j \notin live
SandboxStopFailed(j) == stopCalls[j] >= 1 /\ j \in live

NoLaterJobStarted(j) ==
  \A k \in DOMAIN executionOrder :
    k > Position(executionOrder, j) =>
      /\ startCalls[executionOrder[k]] = 0
      /\ JobStatus(workflowState, executionOrder[k]) = StatusPending

C16_SandboxFailureAbortsRun ==
  \A j \in Range(executionOrder) :
    (SandboxStartFailed(j) \/ SandboxStopFailed(j)) =>
      /\ JobStatus(workflowState, j) = StatusFailure
      /\ NoLaterJobStarted(j)
      /\ pc \in {"close", "returned", "blocked"} =>
           retVal \notin {NoError, NotReturned}

(***************************************************************************)
(* C17: a step that sets both a shell command and an action reference, or  *)
(* neither, is rejected before the execution plan is resolved and before   *)
(* any job reaches Running or any sandbox starts; no such step is ever     *)
(* executed.                                                               *)
(***************************************************************************)
IllFormed(step) == (step.Run # "") <=> (step.Uses # <<>>)

HasIllFormedStep(w) ==
  \E j \in DOMAIN w.Jobs : \E n \in DOMAIN w.Jobs[j].Steps : IllFormed(w.Jobs[j].Steps[n])

C17_IllFormedStepRejected ==
  HasIllFormedStep(workflowDef) =>
    /\ executionOrder = <<>>
    /\ NoJobEntered
    /\ NoSandboxStarted
    /\ \A e \in Range(executed) : ~IllFormed(workflowDef.Jobs[e[1]].Steps[e[2]])
    /\ \A j \in DOMAIN workflowState.Jobs :
         \A n \in DOMAIN workflowState.Jobs[j].Steps :
           IllFormed(workflowDef.Jobs[j].Steps[n]) =>
             StepStatus(workflowState, j, n) = StatusPending
    /\ RunEnded => ReturnedError

(***************************************************************************)
(* C18: RunStep returns only after both output readers have reached the    *)
(* end of their stream and have handed every line they read to the job     *)
(* logger; no output line of the step is logged after RunStep returned.    *)
(***************************************************************************)
C18_ReturnsAfterReadersDone ==
  /\ runStep = "returned" => \A s \in Streams : readers[s].at = "done"
  /\ \A i \in DOMAIN jobLog : ~jobLog[i].afterReturn

(***************************************************************************)
(* C19: on every path by which Execute ends, the workflow logger's Close   *)
(* runs to completion and Execute returns to its caller: the run never     *)
(* blocks in cleanup.                                                      *)
(***************************************************************************)
C19_CloseRunsToCompletion == RunEnded => pc = "returned"

(***************************************************************************)
(* C20: BuildExecutionPlan is deterministic: for a fixed workflow every    *)
(* invocation returns the same job order, and for a fixed invalid workflow *)
(* the same error.  The plan or the error this run obtained is compared    *)
(* with what every iteration order of the two map loops returns.           *)
(***************************************************************************)
PlanOutcomes(w) ==
  {BuildExecutionPlan(w, order1, order2) :
     order1 \in Perms(DOMAIN w.Jobs), order2 \in Perms(DOMAIN w.Jobs)}

C20_PlanDeterministic ==
  /\ executionOrder # <<>> =>
       \A plan \in PlanOutcomes(workflowDef) :
         plan.err = NoError /\ plan.order = executionOrder
  /\ PlanFailed =>
       \A plan \in PlanOutcomes(workflowDef) : plan.err = retVal.cause

(***************************************************************************)
(* C21: BuildStepEnvironment is deterministic: for fixed workflow, job and *)
(* step mappings every call returns the same mapping, whatever order the   *)
(* keys of a layer and of the accumulated mapping are visited in.  The     *)
(* mapping the call returned is the only one the call can return.          *)
(***************************************************************************)
C21_BuildDeterministic ==
  lastBuild.called =>
    BuildStepEnvironment(em.workflowEnv, em.jobEnv, lastBuild.stepEnv) = {lastBuild.env}

(***************************************************************************)
(* C22: in every reachable state of every run, no job and no step has the  *)
(* status Skipped (nor has the workflow).                                  *)
(***************************************************************************)
C22_NeverSkipped ==
  /\ workflowState.Status # StatusSkipped
  /\ \A j \in DOMAIN workflowState.Jobs :
       /\ JobStatus(workflowState, j) # StatusSkipped
       /\ \A n \in DOMAIN workflowState.Jobs[j].Steps :
            StepStatus(workflowState, j, n) # StatusSkipped

\* the run failed in its first job and left a job and a step that never ran
C22_Witness ==
  /\ pc \in {"close", "returned", "blocked"}
  /\ workflowState.Status = StatusFailure
  /\ Len(executionOrder) >= 2
  /\ JobStatus(workflowState, executionOrder[1]) = StatusFailure
  /\ JobStatus(workflowState, executionOrder[2]) = StatusPending
  /\ \E n \in DOMAIN workflowState.Jobs[executionOrder[1]].Steps :
       StepStatus(workflowState, executionOrder[1], n) = StatusPending

(***************************************************************************)
(* C23: there is no retry.  In one run each job is started at most once,   *)
(* the sandbox Start is attempted at most once for each job, and each      *)
(* step's command or action is executed at most once: a step that failed   *)
(* is never executed again.                                                *)
(***************************************************************************)
C23_NoRetry ==
  /\ \A i, k \in 1..jobIdx : executionOrder[i] = executionOrder[k] => i = k
  /\ \A j \in JobIds : startCalls[j] <= 1
  /\ \A i, k \in DOMAIN executed : executed[i] = executed[k] => i = k

\* a step was executed and failed, and the run ended on it
C23_Witness ==
  /\ pc \in {"close", "returned", "blocked"}
  /\ retVal.kind = "job_failed"
  /\ jobErr.kind = "step_failed"
  /\ startCalls[CurrentJobID] = 1
  /\ <<CurrentJobID, stepIdx>> \in Range(executed)
  /\ Len(executed) = 1

(***************************************************************************)
(* C24: the setup-node action runs its commands in the order               *)
(* prerequisites, repository setup, package install, version verification; *)
(* a failing prerequisite command is tolerated, and a failure of an        *)
(* install command or of a verification command makes the action return    *)
(* failure at once: no command is run after it.                            *)
(***************************************************************************)
\* the place of a command in the order of the action
CommandRank(command) ==
  IF command \in Range(PrerequisiteCommands) THEN 1
  ELSE IF command = InstallCommands(NodeVersion(actionCtx.Inputs))[1] THEN 2
  ELSE IF command = InstallCommands(NodeVersion(actionCtx.Inputs))[2] THEN 3
  ELSE IF command \in {NodeVersionCommand, NpmVersionCommand} THEN 4
  ELSE 5

C24_CommandsInOrder ==
  \A i, k \in DOMAIN containerCmds :
    i < k => CommandRank(containerCmds[i].command) <= CommandRank(containerCmds[k].command)

C24_PrerequisiteTolerated ==
  \A i \in DOMAIN containerCmds :
    (CommandRank(containerCmds[i].command) = 1 /\ ~containerCmds[i].ok) =>
      ~(actionResult.returned /\ Len(containerCmds) <= Len(PrerequisiteCommands))

C24_FailureEndsTheAction ==
  \A i \in DOMAIN containerCmds :
    (CommandRank(containerCmds[i].command) \in {2, 3, 4} /\ ~containerCmds[i].ok) =>
      /\ i = Len(containerCmds)
      /\ actionResult.returned
      /\ ~actionResult.Success

C24_SetupNodeSequence ==
  C24_CommandsInOrder /\ C24_PrerequisiteTolerated /\ C24_FailureEndsTheAction

(***************************************************************************)
(* C25: JobRunner.Stop is idempotent: after a Stop that succeeded, and on  *)
(* a runner that was never started, a Stop returns no error, issues no     *)
(* docker command and leaves the runner's state unchanged.                 *)
(***************************************************************************)
\* no container of the runner is up: no "docker run" succeeded, or none
\* since the last "docker stop" that succeeded
NoContainerUp(cmds) ==
  \A i \in DOMAIN cmds :
    (cmds[i].cmd = "run" /\ cmds[i].ok) =>
      \E k \in DOMAIN cmds : k > i /\ cmds[k].cmd = "stop" /\ cmds[k].ok

C25_StopIdempotent ==
  [][(CallStop /\ NoContainerUp(dockerCmds)) =>
       /\ jrCall'.err = NoError
       /\ dockerCmds' = dockerCmds
       /\ jrState' = jrState]_vars

\* a Stop right after the Stop that stopped the container
C25_Witness ==
  /\ jrCall.op = "Stop"
  /\ jrCall.err = NoError
  /\ Len(dockerCmds) = 2
  /\ dockerCmds[1].cmd = "run" /\ dockerCmds[1].ok
  /\ dockerCmds[2].cmd = "stop" /\ dockerCmds[2].ok
  /\ jrCall.before = NewJobRunner

(***************************************************************************)
(* C27: the runner-name to image mapping returns the table entry for       *)
(* ubuntu-latest, ubuntu-22.04 and ubuntu-20.04 and every other value      *)
(* unchanged; it is the image of the JobRunner and of its containers.      *)
(***************************************************************************)
RunnerTable ==
  [name \in {"ubuntu-latest", "ubuntu-22.04", "ubuntu-20.04"} |->
     IF name = "ubuntu-latest" THEN "ubuntu:latest"
     ELSE IF name = "ubuntu-22.04" THEN "ubuntu:22.04"
     ELSE "ubuntu:20.04"]

C27_RunnerImageMapping ==
  /\ runsOn \in DOMAIN RunnerTable => jrImage = RunnerTable[runsOn]
  /\ runsOn \notin DOMAIN RunnerTable => jrImage = runsOn
  /\ \A i \in DOMAIN dockerCmds : dockerCmds[i].image = jrImage

\* a container was started for a runs-on value that is not in the table
C27_Witness ==
  /\ runsOn = "node:18"
  /\ jrImage = "node:18"
  /\ jrState.isRunning
  /\ dockerCmds # <<>>
  /\ dockerCmds[1].cmd = "run"
  /\ dockerCmds[1].image = "node:18"

(***************************************************************************)
(* C26: a shell step ends in Success if and only if its command's exit     *)
(* code is 0: RunStep reports Success exactly when the exit code is 0, and *)
(* the engine marks the step Success exactly when RunStep reported Success *)
(* without error.                                                          *)
(***************************************************************************)
\* the engine is past the shell step of the last RunStep call
PastLastRun ==
  /\ PastCurrentStep
  /\ lastRun # NoRun
  /\ lastRun.job = CurrentJobID
  /\ lastRun.step = stepIdx

ExitedZero(exec) == exec.started /\ exec.exitCode = 0

C26_RunStepSuccessIffExitZero ==
  PastLastRun =>
    /\ lastRun.result.hasResult
    /\ lastRun.result.Success <=> ExitedZero(lastRun.exec)
    /\ lastRun.exec.started => lastRun.result.ExitCode = lastRun.exec.exitCode

C26_StepSuccessIffRunStepSuccess ==
  PastLastRun =>
    (StepStatus(workflowState, CurrentJobID, stepIdx) = StatusSuccess
       <=> (lastRun.result.Success /\ lastRun.result.err = NoError))

C26_SuccessIffExitCodeZero ==
  C26_RunStepSuccessIffExitZero /\ C26_StepSuccessIffRunStepSuccess

(***************************************************************************)
(* C28: every mapping BuildStepEnvironment returns has all eighteen        *)
(* derived keys: the eleven GITHUB_* keys, CI, GITHUB_ACTIONS and the five *)
(* RUNNER_* keys; CI and GITHUB_ACTIONS have the value true unless a       *)
(* workflow, job or step variable of the same name overrides them.         *)
(***************************************************************************)
DerivedKeys ==
  {<<"GITHUB_REPOSITORY">>, <<"GITHUB_SHA">>, <<"GITHUB_REF">>,
   <<"GITHUB_WORKSPACE">>, <<"GITHUB_EVENT_NAME">>, <<"GITHUB_ACTOR">>,
   <<"GITHUB_RUN_ID">>, <<"GITHUB_RUN_NUMBER">>, <<"GITHUB_JOB">>,
   <<"GITHUB_ACTION">>, <<"GITHUB_ACTION", "_PATH">>,
   <<"CI">>, <<"GITHUB_ACTION", "S">>,
   <<"RUNNER_OS">>, <<"RUNNER_ARCH">>, <<"RUNNER_NAME">>, <<"RUNNER_TEMP">>,
   <<"RUNNER_TOOL_CACHE">>}

Overridden(key) ==
  key \in DOMAIN em.workflowEnv \cup DOMAIN em.jobEnv \cup DOMAIN lastBuild.stepEnv

C28_DerivedKeysPresent ==
  lastBuild.called =>
    /\ Cardinality(DerivedKeys) = 18
    /\ DerivedKeys \subseteq DOMAIN lastBuild.env
    /\ \A key \in {<<"CI">>, <<"GITHUB_ACTION", "S">>} :
         ~Overridden(key) => lastBuild.env[key] = <<"true">>

\* the job overrides CI and nothing overrides GITHUB_ACTIONS
C28_Witness ==
  /\ lastBuild.called
  /\ <<"CI">> \in DOMAIN em.jobEnv
  /\ lastBuild.env[<<"CI">>] = <<"1">>
  /\ lastBuild.env[<<"GITHUB_ACTION", "S">>] = <<"true">>
  /\ <<"X">> \in DOMAIN lastBuild.env

(***************************************************************************)
(* C29: every line written to the workflow log file and to a job log file  *)
(* has the form timestamp, one space, message: the lines of the file       *)
(* header and the lines of a multi-line message too.                       *)
(***************************************************************************)
\* the lines of a file: the text between line feeds
LinesOf(file) ==
  LET parts == Split(file, NewLine)
  IN IF parts[Len(parts)] = <<>> THEN SubSeq(parts, 1, Len(parts) - 1) ELSE parts

IsLogLine(text) == Len(text) >= 2 /\ text[1] = Timestamp /\ text[2] = " "

C29_EveryLineTimestamped ==
  \A file \in {workflowFile, jobFile} :
    \A i \in DOMAIN LinesOf(file) : IsLogLine(LinesOf(file)[i])

(***************************************************************************)
(* C30: an expression evaluation error while the inputs of an action step  *)
(* are expanded is not fatal: it never by itself puts the step, the job or *)
(* the run in Failure; the action is resolved and executed with the        *)
(* partially substituted input value.                                      *)
(***************************************************************************)
\* an input of the step holds an expression whose evaluation fails
HasFailingInput(step) ==
  \E k \in DOMAIN step.With :
    \E i \in DOMAIN step.With[k] :
      /\ OccursAt(step.With[k], <<"$", "{", "{">>, i)
      /\ Evaluate(EvaluationContext(DerivedEnv),
                  SubSeq(step.With[k], i, i + Len(Token("c", "p")) - 1)).err # NoError

\* the step, its job or the run is in Failure
InFailure ==
  \/ StepStatus(workflowState, CurrentJobID, stepIdx) = StatusFailure
  \/ JobStatus(workflowState, CurrentJobID) = StatusFailure
  \/ workflowState.Status = StatusFailure
  \/ jobErr # NoError

C30_ExpressionErrorNotFatal ==
  (PastCurrentStep /\ CurrentStep.Uses # <<>> /\ HasFailingInput(CurrentStep)) =>
    /\ ExpandedInputs(CurrentStep)["ref"] = <<"0000000">> \o Token("runner", "name")
    /\ <<CurrentJobID, stepIdx>> \in Range(executed)
    /\ InFailure => (jobErr.kind = "step_failed" /\ jobErr.cause.kind = "action_failed")

\* the step whose input kept a failing expression succeeded
C30_Witness ==
  /\ PastCurrentStep
  /\ CurrentStep.Uses # <<>>
  /\ HasFailingInput(CurrentStep)
  /\ <<CurrentJobID, stepIdx>> \in Range(executed)
  /\ StepStatus(workflowState, CurrentJobID, stepIdx) = StatusSuccess
  /\ jobErr = NoError

(***************************************************************************)
(* C31: a variable value is resolved by two passes: first the literal      *)
(* github and runner tokens are replaced from the context snapshots, then  *)
(* the references $NAME and ${NAME} from the mapping accumulated so far.   *)
(* A value that references a variable of a lower layer resolves to that    *)
(* variable's resolved value, and a token the first pass does not know is  *)
(* left as it is.                                                          *)
(***************************************************************************)
\* what a value resolves to over the mapping of the lower layers: the values
\* of the model are a literal, one token, or one reference
ResolvedValue(value, lower) ==
  IF \E i \in DOMAIN ContextTokens(GitHubContext, RunnerContext) :
       ContextTokens(GitHubContext, RunnerContext)[i][1] = value
  THEN LET i == CHOOSE i \in DOMAIN ContextTokens(GitHubContext, RunnerContext) :
                  ContextTokens(GitHubContext, RunnerContext)[i][1] = value
       IN ContextTokens(GitHubContext, RunnerContext)[i][2]
  ELSE IF value # <<>> /\ Head(value) = "$" /\ Tail(value) \in DOMAIN lower
  THEN lower[Tail(value)]
  ELSE value

ResolvedLayer(layer, lower) ==
  [key \in DOMAIN lower \cup DOMAIN layer |->
     IF key \in DOMAIN layer THEN ResolvedValue(layer[key], lower) ELSE lower[key]]

C31_TwoPassResolution ==
  lastBuild.called =>
    lastBuild.env =
      ResolvedLayer(lastBuild.stepEnv,
                    ResolvedLayer(em.jobEnv, ResolvedLayer(em.workflowEnv, DerivedEnv)))

(***************************************************************************)
(* C32: the job-level variables are set once per job, before its steps,    *)
(* and do not leak: the environment built for a step of a job is built     *)
(* from the workflow's variables, that job's own variables and the step's, *)
(* holds no variable that only an earlier job declared (also when the job  *)
(* declares none), and BuildStepEnvironment leaves the stored mappings as  *)
(* they are.                                                               *)
(***************************************************************************)
\* the keys that only jobs that ran earlier declared
OnlyEarlierKeys ==
  earlierJobKeys \ (DerivedKeys \cup DOMAIN em.workflowEnv \cup DOMAIN currentJobEnv
                      \cup DOMAIN lastBuild.stepEnv)

C32_JobEnvDoesNotLeak ==
  [][/\ lastBuild'.called =>
          /\ lastBuild'.env \in BuildStepEnvironment(em'.workflowEnv, currentJobEnv',
                                                      lastBuild'.stepEnv)
          /\ OnlyEarlierKeys' \cap DOMAIN lastBuild'.env = {}
     /\ (lastBuild'.called /\ lastBuild' # lastBuild) => em' = em]_vars

C32_Witness ==
  /\ lastBuild.called
  /\ currentJobEnv = EmptyEnv
  /\ <<"X">> \in OnlyEarlierKeys
  /\ <<"X">> \notin DOMAIN lastBuild.env

(***************************************************************************)
(* C33: when a shell step fails with a nonzero exit code, the error that   *)
(* Execute returns names the job and the step and wraps a cause that is    *)
(* not nil: the cause is forwarded through executeRunStep, executeJob and  *)
(* Execute.                                                                *)
(***************************************************************************)
\* Execute has set its return value after the last RunStep of the run, whose
\* command exited with a code other than 0
FailedOnExitCode ==
  /\ pc \in {"close", "returned", "blocked"}
  /\ PastLastRun
  /\ lastRun.exec.started
  /\ lastRun.exec.exitCode # 0

C33_StepFailureCauseForwarded ==
  FailedOnExitCode =>
    /\ retVal.kind = "job_failed"
    /\ retVal.job = CurrentJobID
    /\ retVal.cause.kind = "step_failed"
    /\ retVal.cause.step = StepDisplayName(CurrentStep, stepIdx)
    /\ retVal.cause.cause # NoError

(***************************************************************************)
(* C34: under any interleaving of the two output readers of a step, the    *)
(* lines of one stream are written to the job log in the order the stream  *)
(* produced them, and each log write is atomic: the job file is, line for  *)
(* line, one "timestamp text" line for each line logged, and no line of    *)
(* the file holds text of two.                                             *)
(***************************************************************************)
\* the lines of the job log that came from a stream, in the order of the log
LoggedOf(s) ==
  LET RECURSIVE pick(_)
      pick(i) == IF i > Len(jobLog) THEN <<>>
                 ELSE IF jobLog[i].stream = s
                      THEN <<jobLog[i]>> \o pick(i + 1)
                      ELSE pick(i + 1)
  IN pick(1)

\* the lines the process wrote to a stream, a last line without its line
\* feed included
Produced(s) == written[s] + (IF midLine[s] THEN 1 ELSE 0)

\* the lines of a stream in the log are its lines 1, 2, ... without a gap
\* or a repetition; only the last of them can be a first part
StreamOrderKept ==
  \A s \in Streams :
    /\ Len(LoggedOf(s)) <= Produced(s)
    /\ \A i \in DOMAIN LoggedOf(s) :
         /\ LoggedOf(s)[i].line = i
         /\ LoggedOf(s)[i].cut => i = Len(LoggedOf(s))

\* the job file when every line logged so far was written whole, one after
\* the other
WholeLines(log) ==
  LET RECURSIVE file(_)
      file(i) == IF i > Len(log) THEN <<>>
                 ELSE <<Timestamp, " ">>
                        \o TokenText(log[i].stream, log[i].line, log[i].cut)
                        \o <<NewLine>> \o file(i + 1)
  IN file(1)

C34_OrderKeptAndWritesAtomic ==
  /\ StreamOrderKept
  /\ jobLogFile = WholeLines(jobLog)

\* both streams have lines in the log, and one reader is inside writeJobLog
\* with the mutex while the other waits for it with a line in hand
C34_Witness ==
  /\ \E i, j \in DOMAIN jobLog : jobLog[i].stream # jobLog[j].stream
  /\ \E s, t \in Streams :
       /\ readers[s].at = "write"
       /\ jlMu = s
       /\ readers[t].at = "log"

(***************************************************************************)
(* C35: replaceExpressions terminates for every input and every            *)
(* environment, also when the value of an expression holds an expression   *)
(* itself: at the head of the loop, result never has a value it had at the *)
(* head of an earlier turn (the loop is deterministic, so a value that     *)
(* comes back comes back for ever).                                        *)
(***************************************************************************)
C35_ReplaceExpressionsTerminates ==
  loopPc = "loop" => loopResult \notin turns

(***************************************************************************)
(* C36: whenever Execute returns an error, the workflow's status is        *)
(* Failure at that moment, on every error path: a failure of the execution *)
(* plan, of the job logger, of the start of the sandbox, or of a step.     *)
(***************************************************************************)
\* Execute has its return value, an error
ReturnsError ==
  /\ pc \in {"close", "returned", "blocked"}
  /\ retVal \notin {NoError, NotReturned}

C36_ErrorImpliesFailureStatus ==
  ReturnsError => workflowState.Status = StatusFailure

(***************************************************************************)
(* C37: in every reachable state a job in status Success has every step in *)
(* status Success, and a job in status Failure whose sandbox started has   *)
(* exactly one step in status Failure, with every later step Pending; for  *)
(* every workflow, jobs whose steps share a display name included.         *)
(***************************************************************************)
SandboxStarted(j) == j \in live \/ stopCalls[j] >= 1

FailedSteps(j) ==
  {n \in DOMAIN workflowState.Jobs[j].Steps :
     StepStatus(workflowState, j, n) = StatusFailure}

C37_JobAndStepStatusesAgree ==
  \A j \in DOMAIN workflowState.Jobs :
    /\ JobStatus(workflowState, j) = StatusSuccess =>
         \A n \in DOMAIN workflowState.Jobs[j].Steps :
            StepStatus(workflowState, j, n) = StatusSuccess
    /\ (JobStatus(workflowState, j) = StatusFailure /\ SandboxStarted(j)) =>
         /\ Cardinality(FailedSteps(j)) = 1
         /\ \A n \in FailedSteps(j) :
              \A m \in DOMAIN workflowState.Jobs[j].Steps :
                 m > n => StepStatus(workflowState, j, m) = StatusPending

(***************************************************************************)
(* C38: at most one sandbox is live at any time of a run: when the sandbox *)
(* of a job is started, the sandbox of every earlier job has been stopped, *)
(* also when an earlier Stop reported a failure.                           *)
(***************************************************************************)
C38_AtMostOneSandboxLive == Cardinality(live) <= 1

(***************************************************************************)
(* C39: the JobRunner guards its lifecycle.  Start on a runner that is     *)
(* running returns an error and changes nothing; RunStep on a runner that  *)
(* is not running returns an error and executes no command; a Stop whose   *)
(* "docker stop" fails returns an error and leaves the runner running with *)
(* its container id; after a Stop that returned nil the runner is not      *)
(* running and its container id is empty.                                  *)
(***************************************************************************)
\* the call of this step issued a docker command, which failed
CommandFailed ==
  /\ Len(dockerCmds') = Len(dockerCmds) + 1
  /\ ~dockerCmds'[Len(dockerCmds')].ok

C39_StartGuard ==
  (jrCall'.op = "Start" /\ jrState.isRunning) =>
    /\ jrCall'.err # NoError
    /\ jrState' = jrState
    /\ dockerCmds' = dockerCmds

C39_RunStepGuard ==
  (jrCall'.op = "RunStep" /\ ~jrState.isRunning) =>
    /\ jrCall'.err # NoError
    /\ ~jrCall'.result.hasResult
    /\ jrState' = jrState
    /\ dockerCmds' = dockerCmds

C39_StopGuard ==
  jrCall'.op = "Stop" =>
    /\ CommandFailed =>
         /\ jrCall'.err # NoError
         /\ jrState' = jrState
         /\ jrState'.isRunning /\ jrState'.containerID # ""
    /\ jrCall'.err = NoError =>
         ~jrState'.isRunning /\ jrState'.containerID = ""

C39_LifecycleGuarded ==
  [][C39_StartGuard /\ C39_RunStepGuard /\ C39_StopGuard]_vars

C39_Witness ==
  /\ jrCall.op = "Start"
  /\ jrCall.before.isRunning
  /\ jrCall.err # NoError
  /\ Len(dockerCmds) = 2
  /\ dockerCmds[2].cmd = "stop" /\ ~dockerCmds[2].ok
  /\ jrState.isRunning /\ jrState.containerID # ""

====
